---- MODULE Spec2Model ----
(***************************************************************************)
(* A model of supersonar's scanning pipeline (src/supersonar/scanner.py)   *)
(* and of the rule engines it drives (src/supersonar/rules/*.py).          *)
(*                                                                         *)
(* Text is modelled at the level of lexemes: a source line is a sequence   *)
(* of lexemes (strings), each with its length in characters, so that       *)
(* columns (match.start() + 1) are computed as the code computes them.     *)
(* Names that are ordered or cut into suffixes are mapped to their         *)
(* character codes by Code, and compared as Python compares str values.    *)
(***************************************************************************)
EXTENDS Integers, Sequences, FiniteSets, TLC

(***************************************************************************)
(* Bounds of the model.                                                    *)
(***************************************************************************)
MaxLines == 2
MaxFiles == 2
MaxIssues == 3

(***************************************************************************)
(* Strings.                                                                *)
(***************************************************************************)
Code ==
    "/" :> <<47>> @@
    "work" :> <<119, 111, 114, 107>> @@
    "proj" :> <<112, 114, 111, 106>> @@
    "build" :> <<98, 117, 105, 108, 100>> @@
    "a" :> <<97>> @@
    "pkg" :> <<112, 107, 103>> @@
    "target" :> <<116, 97, 114, 103, 101, 116>> @@
    "venv" :> <<118, 101, 110, 118>> @@
    "generated-sources" :> <<103, 101, 110, 101, 114, 97, 116, 101, 100, 45, 115, 111, 117, 114, 99, 101, 115>> @@
    "lib.egg-info" :> <<108, 105, 98, 46, 101, 103, 103, 45, 105, 110, 102, 111>> @@
    "a.py" :> <<97, 46, 112, 121>> @@
    "b.py" :> <<98, 46, 112, 121>> @@
    "B.PY" :> <<66, 46, 80, 89>> @@
    "z.py" :> <<122, 46, 112, 121>> @@
    "App.java" :> <<65, 112, 112, 46, 106, 97, 118, 97>> @@
    "App.kt" :> <<65, 112, 112, 46, 107, 116>> @@
    "App.jsx" :> <<65, 112, 112, 46, 106, 115, 120>> @@
    "main.go" :> <<109, 97, 105, 110, 46, 103, 111>> @@
    "c.txt" :> <<99, 46, 116, 120, 116>> @@
    "x.pyc" :> <<120, 46, 112, 121, 99>> @@
    "app.min.js" :> <<97, 112, 112, 46, 109, 105, 110, 46, 106, 115>> @@
    "Dockerfile" :> <<68, 111, 99, 107, 101, 114, 102, 105, 108, 101>> @@
    "README" :> <<82, 69, 65, 68, 77, 69>> @@
    ".env" :> <<46, 101, 110, 118>> @@
    "notes." :> <<110, 111, 116, 101, 115, 46>> @@
    ".py" :> <<46, 112, 121>> @@
    "py" :> <<112, 121>> @@
    ".PY" :> <<46, 80, 89>> @@
    ".java" :> <<46, 106, 97, 118, 97>> @@
    ".kt" :> <<46, 107, 116>> @@
    ".jsx" :> <<46, 106, 115, 120>> @@
    ".go" :> <<46, 103, 111>> @@
    ".txt" :> <<46, 116, 120, 116>> @@
    ".js" :> <<46, 106, 115>> @@
    ".md" :> <<46, 109, 100>> @@
    ".pyo" :> <<46, 112, 121, 111>> @@
    ".class" :> <<46, 99, 108, 97, 115, 115>> @@
    ".jar" :> <<46, 106, 97, 114>> @@
    ".war" :> <<46, 119, 97, 114>> @@
    ".whl" :> <<46, 119, 104, 108>> @@
    ".egg-info" :> <<46, 101, 103, 103, 45, 105, 110, 102, 111>> @@
    ".min.js" :> <<46, 109, 105, 110, 46, 106, 115>> @@
    ".map" :> <<46, 109, 97, 112>> @@
    ".ts" :> <<46, 116, 115>> @@
    ".tsx" :> <<46, 116, 115, 120>> @@
    ".php" :> <<46, 112, 104, 112>> @@
    ".rb" :> <<46, 114, 98>> @@
    ".sh" :> <<46, 115, 104>> @@
    ".bash" :> <<46, 98, 97, 115, 104>> @@
    ".zsh" :> <<46, 122, 115, 104>> @@
    ".ps1" :> <<46, 112, 115, 49>> @@
    ".yaml" :> <<46, 121, 97, 109, 108>> @@
    ".yml" :> <<46, 121, 109, 108>> @@
    ".toml" :> <<46, 116, 111, 109, 108>> @@
    ".ini" :> <<46, 105, 110, 105>> @@
    ".cfg" :> <<46, 99, 102, 103>> @@
    ".pyc" :> <<46, 112, 121, 99>> @@
    ".mypy_cache" :> <<46, 109, 121, 112, 121, 95, 99, 97, 99, 104, 101>> @@
    ".pytest_cache" :> <<46, 112, 121, 116, 101, 115, 116, 95, 99, 97, 99, 104, 101>> @@
    ".tox" :> <<46, 116, 111, 120>> @@
    ".nox" :> <<46, 110, 111, 120>> @@
    ".ruff_cache" :> <<46, 114, 117, 102, 102, 95, 99, 97, 99, 104, 101>> @@
    "node_modules" :> <<110, 111, 100, 101, 95, 109, 111, 100, 117, 108, 101, 115>> @@
    ".gradle" :> <<46, 103, 114, 97, 100, 108, 101>> @@
    ".eggs" :> <<46, 101, 103, 103, 115>> @@
    "src" :> <<115, 114, 99>> @@
    "txt" :> <<116, 120, 116>> @@
    "pipe.py" :> <<112, 105, 112, 101, 46, 112, 121>> @@
    "SS000" :> <<83, 83, 48, 48, 48>> @@
    "SS001" :> <<83, 83, 48, 48, 49>> @@
    "SS003" :> <<83, 83, 48, 48, 51>> @@
    "SS004" :> <<83, 83, 48, 48, 52>> @@
    "SS005" :> <<83, 83, 48, 48, 53>> @@
    "SS101" :> <<83, 83, 49, 48, 49>> @@
    "SS103" :> <<83, 83, 49, 48, 51>> @@
    "SS104" :> <<83, 83, 49, 48, 52>> @@
    "SS106" :> <<83, 83, 49, 48, 54>> @@
    "SS201" :> <<83, 83, 50, 48, 49>> @@
    "SS302" :> <<83, 83, 51, 48, 50>> @@
    "SS401" :> <<83, 83, 52, 48, 49>> @@
    "SS501" :> <<83, 83, 53, 48, 49>> @@
    "SS006" :> <<83, 83, 48, 48, 54>> @@
    "SS007" :> <<83, 83, 48, 48, 55>> @@
    "SS008" :> <<83, 83, 48, 48, 56>> @@
    "SS009" :> <<83, 83, 48, 48, 57>> @@
    "SS102" :> <<83, 83, 49, 48, 50>> @@
    "SS107" :> <<83, 83, 49, 48, 55>> @@
    "SS108" :> <<83, 83, 49, 48, 56>> @@
    "SS109" :> <<83, 83, 49, 48, 57>> @@
    "SS110" :> <<83, 83, 49, 49, 48>> @@
    "SS111" :> <<83, 83, 49, 49, 49>> @@
    "SS112" :> <<83, 83, 49, 49, 50>> @@
    "SS113" :> <<83, 83, 49, 49, 51>> @@
    "SS114" :> <<83, 83, 49, 49, 52>> @@
    "SS221" :> <<83, 83, 50, 50, 49>> @@
    "SS306" :> <<83, 83, 51, 48, 54>> @@
    "SS407" :> <<83, 83, 52, 48, 55>> @@
    "SS408" :> <<83, 83, 52, 48, 56>> @@
    "SS507" :> <<83, 83, 53, 48, 55>> @@
    "SS105" :> <<83, 83, 49, 48, 53>> @@
    "SS204" :> <<83, 83, 50, 48, 52>> @@
    "SS207" :> <<83, 83, 50, 48, 55>> @@
    "SS304" :> <<83, 83, 51, 48, 52>> @@
    "SS404" :> <<83, 83, 52, 48, 52>> @@
    "SS505" :> <<83, 83, 53, 48, 53>> @@
    "SS208" :> <<83, 83, 50, 48, 56>> @@
    "SS305" :> <<83, 83, 51, 48, 53>> @@
    "SS405" :> <<83, 83, 52, 48, 53>> @@
    "SS506" :> <<83, 83, 53, 48, 54>> @@
    "SS218" :> <<83, 83, 50, 49, 56>> @@
    "SS220" :> <<83, 83, 50, 50, 48>> @@
    "SS202" :> <<83, 83, 50, 48, 50>> @@
    "SS203" :> <<83, 83, 50, 48, 51>> @@
    "run" :> <<114, 117, 110>> @@
    "dockerfile" :> <<100, 111, 99, 107, 101, 114, 102, 105, 108, 101>> @@
    ".dockerfile" :> <<46, 100, 111, 99, 107, 101, 114, 102, 105, 108, 101>> @@
    "App.Dockerfile" :> <<65, 112, 112, 46, 68, 111, 99, 107, 101, 114, 102, 105, 108, 101>> @@
    "App" :> <<65, 112, 112>> @@
    "SS900" :> <<83, 83, 57, 48, 48>>

\* str.lower() on character codes (ASCII letters).
lower(cs) == [i \in 1..Len(cs) |-> IF cs[i] \in 65..90 THEN cs[i] + 32 ELSE cs[i]]

\* str.endswith(suffix)
endswith(cs, suf) ==
    /\ Len(suf) <= Len(cs)
    /\ SubSeq(cs, Len(cs) - Len(suf) + 1, Len(cs)) = suf

\* str.startswith(prefix)
startswith(cs, pre) ==
    /\ Len(pre) <= Len(cs)
    /\ SubSeq(cs, 1, Len(pre)) = pre

\* a < b for two sequences of integers, as Python orders str and tuple
\* values: by the first position where they differ, a proper prefix first.
RECURSIVE SeqLess(_, _)
SeqLess(a, b) ==
    IF a = << >> THEN b # << >>
    ELSE IF b = << >> THEN FALSE
    ELSE IF Head(a) # Head(b) THEN Head(a) < Head(b)
    ELSE SeqLess(Tail(a), Tail(b))

\* "/".join(parts) of a relative path, in character codes.
RECURSIVE JoinParts(_)
JoinParts(parts) ==
    IF parts = << >> THEN << >>
    ELSE IF Len(parts) = 1 THEN Code[parts[1]]
    ELSE Code[parts[1]] \o <<47>> \o JoinParts(Tail(parts))

\* pathlib's PurePath.suffix of a file name: the text from the last dot,
\* unless that dot is the first or the last character.
PathSuffix(name) ==
    LET cs == Code[name]
        dots == {i \in 1..Len(cs) : cs[i] = 46}
    IN  IF dots = {} THEN << >>
        ELSE LET i == CHOOSE d \in dots : \A e \in dots : e <= d
             IN  IF 1 < i /\ i < Len(cs) THEN SubSeq(cs, i, Len(cs)) ELSE << >>

(***************************************************************************)
(* Source text: lexemes and their lengths in characters.                   *)
(***************************************************************************)
LexLen ==
    "x = 1" :> 5 @@
    " " :> 1 @@
    "\t" :> 1 @@
    "#" :> 1 @@
    "," :> 1 @@
    "TODO" :> 4 @@
    "fixme" :> 5 @@
    "supersonar:ignore" :> 17 @@
    "SUPERSONAR:IGNORE" :> 17 @@
    "SS004" :> 5 @@
    "ss004" :> 5 @@
    "SS003" :> 5 @@
    "reason" :> 6 @@
    "password = 'hunter2!'" :> 21 @@
    "token: 'abcd1234'" :> 17 @@
    "eval(x)" :> 7 @@
    "<<<<<<< HEAD" :> 12 @@
    "NUL" :> 1 @@
    "x = 1+1+...+1" :> 6003 @@
    "package" :> 7 @@
    "com.Example.Bad" :> 15 @@
    "My_Pkg" :> 6 @@
    ";" :> 1 @@
    "const" :> 5 @@
    "home" :> 4 @@
    "= () => <div>Home</div>;" :> 24 @@
    "pad1022" :> 1022 @@
    "func" :> 4 @@
    "fun" :> 3 @@
    "function" :> 8 @@
    "public" :> 6 @@
    "void" :> 4 @@
    "run" :> 3 @@
    "App" :> 3 @@
    "()" :> 2 @@
    "= () =>" :> 7 @@
    "{" :> 1 @@
    "}" :> 1 @@
    "{}" :> 2 @@
    "USER" :> 4 @@
    "user" :> 4 @@
    "root" :> 4 @@
    "0" :> 1 @@
    "app" :> 3 @@
    "FROM" :> 4 @@
    "node" :> 4 @@
    "node:latest" :> 11 @@
    "python:3.12" :> 11 @@
    "const { exec } = require('child_process');" :> 42 @@
    "const { exec: run } = require('child_process');" :> 47 @@
    "const { spawn } = require('child_process');" :> 43 @@
    "import { execSync as run } from 'child_process';" :> 48 @@
    "const cp = require('child_process');" :> 36 @@
    "import * as cp from 'child_process';" :> 36 @@
    "import cp from 'child_process';" :> 31 @@
    "require('child_process').exec(cmd);" :> 35 @@
    "const out = require('child_process').execSync(cmd);" :> 51 @@
    "exec(cmd);" :> 10 @@
    "run(cmd);" :> 9 @@
    "spawn(cmd);" :> 11 @@
    "cp.exec(cmd);" :> 13 @@
    "cp.execSync(cmd);" :> 17 @@
    "child_process.exec(cmd);" :> 24 @@
    "//" :> 2 @@
    "const u = 'a//b';" :> 17 @@
    "exec.Command(cmd)" :> 17 @@
    "InsecureSkipVerify: true" :> 24 @@
    "pickle.loads(data)" :> 18 @@
    "requests.get(url, verify=False)" :> 31 @@
    "class" :> 5 @@
    ":" :> 1 @@
    "def" :> 3 @@
    "(self):" :> 7 @@
    "__init__" :> 8 @@
    "pass" :> 4 @@
    "self.a = 1" :> 10 @@
    "self.b = 1" :> 10 @@
    "self.c = 1" :> 10 @@
    "self.d = 1" :> 10 @@
    "self.e = 1" :> 10 @@
    "self.f = 1" :> 10 @@
    "this.a = 1;" :> 11 @@
    "this.b = 1;" :> 11 @@
    "this.c = 1;" :> 11 @@
    "this.d = 1;" :> 11 @@
    "this.e = 1;" :> 11 @@
    "this.f = 1;" :> 11

\* str.upper() of the lexemes, and pieces of lexemes, that can stand in a
\* rule list.
upper(lexeme) ==
    CASE lexeme = "ss004" -> "SS004"
      [] lexeme = "reason" -> "REASON"
      [] lexeme = "supersonar:ignore" -> "SUPERSONAR:IGNORE"
      [] lexeme = "fixme" -> "FIXME"
      [] lexeme = "x" -> "X"
      [] lexeme = "password" -> "PASSWORD"
      [] lexeme = "token" -> "TOKEN"
      [] lexeme = "eval" -> "EVAL"
      [] lexeme = "com" -> "COM"
      [] lexeme = "supersonar" -> "SUPERSONAR"
      [] lexeme = "package" -> "PACKAGE"
      [] lexeme = "My_Pkg" -> "MY_PKG"
      [] lexeme = "const" -> "CONST"
      [] lexeme = "home" -> "HOME"
      [] lexeme = "func" -> "FUNC"
      [] lexeme = "fun" -> "FUN"
      [] lexeme = "function" -> "FUNCTION"
      [] lexeme = "public" -> "PUBLIC"
      [] lexeme = "void" -> "VOID"
      [] lexeme = "run" -> "RUN"
      [] lexeme = "App" -> "APP"
      [] lexeme = "user" -> "USER"
      [] lexeme = "root" -> "ROOT"
      [] lexeme = "app" -> "APP"
      [] lexeme = "node" -> "NODE"
      [] lexeme = "exec" -> "EXEC"
      [] lexeme = "InsecureSkipVerify" -> "INSECURESKIPVERIFY"
      [] lexeme = "pickle" -> "PICKLE"
      [] lexeme = "requests" -> "REQUESTS"
      [] lexeme = "class" -> "CLASS"
      [] lexeme = "def" -> "DEF"
      [] lexeme = "__init__" -> "__INIT__"
      [] lexeme = "pass" -> "PASS"
      [] lexeme = "self" -> "SELF"
      [] lexeme = "this" -> "THIS"
      [] OTHER -> lexeme

Whitespace == {" ", "\t"}

\* match.start() of the lexeme at position k of a line: the number of
\* characters before it.
RECURSIVE StartOf(_, _)
StartOf(line, k) == IF k <= 1 THEN 0 ELSE StartOf(line, k - 1) + LexLen[line[k - 1]]

\* len(line)
LineLen(line) == StartOf(line, Len(line) + 1)

\* pattern.search(line) for a pattern that matches exactly the lexemes of
\* S: the position of the leftmost match, 0 for no match.
Search(line, S) ==
    LET hits == {k \in 1..Len(line) : line[k] \in S}
    IN  IF hits = {} THEN 0 ELSE CHOOSE k \in hits : \A j \in hits : k <= j

\* Position of the first lexeme that is not whitespace, Len + 1 if none
\* (what "^\s*" skips, what str.lstrip() removes).
FirstNonSpace(line) ==
    LET ks == {k \in 1..Len(line) : line[k] \notin Whitespace}
    IN  IF ks = {} THEN Len(line) + 1 ELSE CHOOSE k \in ks : \A j \in ks : k <= j

\* Position of the last lexeme that is not whitespace, 0 if none.
LastNonSpace(line) ==
    LET ks == {k \in 1..Len(line) : line[k] \notin Whitespace}
    IN  IF ks = {} THEN 0 ELSE CHOOSE k \in ks : \A j \in ks : j <= k

(***************************************************************************)
(* models.py                                                               *)
(***************************************************************************)
Issue(rule_id, title, severity, message, file_path, line, column) ==
    [rule_id |-> rule_id, title |-> title, severity |-> severity,
     message |-> message, file_path |-> file_path, line |-> line,
     column |-> column]

\* coverage is None ({}) or {CoverageData}; of CoverageData the model keeps
\* line_rate, in thousandths.
ScanResult(issue_list, n_files, coverage) ==
    [issues |-> issue_list, files_scanned |-> n_files, coverage |-> coverage]

\* Concatenation of a sequence of sequences (list.extend, in order).
RECURSIVE Flatten(_)
Flatten(ss) == IF ss = << >> THEN << >> ELSE Head(ss) \o Flatten(Tail(ss))

(***************************************************************************)
(* rules/generic.py.  A file handed to an engine is a record               *)
(*   [path |-> the parts of its absolute path, text |-> its lines];        *)
(* str(file_path) is kept as the sequence of path parts.  The detectors    *)
(* whose patterns no lexeme of the model matches (private keys, http       *)
(* URLs, Kubernetes manifests) find nothing and are left out of run's      *)
(* concatenation.                                                          *)
(***************************************************************************)
MAX_LINE_LENGTH == 140
MAX_FILE_LINES == 800

DYNAMIC_EVAL_EXTENSIONS ==
    {Code[e] : e \in {".js", ".jsx", ".ts", ".tsx", ".py", ".java", ".kt", ".go",
                      ".php", ".rb", ".sh", ".bash", ".zsh", ".ps1"}}

\* The lexemes each pattern of generic.py matches.
TODO_FIXME_PATTERN == {"TODO", "fixme"}
SECRET_PATTERN == {"password = 'hunter2!'", "token: 'abcd1234'"}
EVAL_PATTERN == {"eval(x)"}
CONFLICT_MARKERS == {"<<<<<<< HEAD"}

FileName(file) == file.path[Len(file.path)]

\* _strip_inline_comment(line, suffix).strip(): the line without its
\* leading whitespace, cut at the first "#" for the suffixes whose comments
\* start with "#", and stripped.  ("//" and "--" are no lexemes of the
\* model, so the other two branches return the line as it is.)
_strip_inline_comment(line, suffix) ==
    LET first == FirstNonSpace(line)
        hash == Search(line, {"#"})
        cut == IF /\ suffix \in {Code[e] : e \in {".py", ".sh", ".bash", ".zsh", ".rb",
                                                  ".yaml", ".yml", ".toml", ".ini", ".cfg"}}
                  /\ hash > 0
               THEN SubSeq(line, 1, hash - 1) ELSE line
    IN  SubSeq(cut, first, LastNonSpace(cut))

Generic_find_todo_fixme(source, file_path) ==
    Flatten([idx \in 1..Len(source) |->
        LET k == Search(source[idx], TODO_FIXME_PATTERN)
        IN  IF k > 0
            THEN <<Issue("SS004", "Work item marker in source", "low",
                         "Found TODO/FIXME marker. Track and resolve before release.",
                         file_path, idx, StartOf(source[idx], k) + 1)>>
            ELSE << >>])

Generic_find_secrets(source, file_path) ==
    Flatten([idx \in 1..Len(source) |->
        IF Search(source[idx], SECRET_PATTERN) > 0
        THEN <<Issue("SS003", "Potential hardcoded secret", "high",
                     "Potential credential/token assignment found in source.",
                     file_path, idx, 1)>>
        ELSE << >>])

_find_conflict_markers(source, file_path) ==
    Flatten([idx \in 1..Len(source) |->
        IF source[idx] # << >> /\ source[idx][1] \in CONFLICT_MARKERS
        THEN <<Issue("SS005", "Unresolved merge conflict marker", "high",
                     "Unresolved git merge marker found in source file.",
                     file_path, idx, 1)>>
        ELSE << >>])

_find_dynamic_eval(source, file_path) ==
    LET suffix == lower(PathSuffix(file_path[Len(file_path)]))
    IN  IF suffix \notin DYNAMIC_EVAL_EXTENSIONS THEN << >>
        ELSE Flatten([idx \in 1..Len(source) |->
                LET normalized == _strip_inline_comment(source[idx], suffix)
                IN  IF normalized # << >> /\ Search(normalized, EVAL_PATTERN) > 0
                    THEN <<Issue("SS101", "Dynamic code evaluation usage", "critical",
                                 "Avoid dynamic evaluation patterns like eval()/Function().",
                                 file_path, idx, 1)>>
                    ELSE << >>])

_find_long_lines(source, file_path) ==
    Flatten([idx \in 1..Len(source) |->
        IF LineLen(source[idx]) <= MAX_LINE_LENGTH THEN << >>
        ELSE <<Issue("SS103", "Excessive line length", "low",
                     "Line length exceeds 140 characters; wrap for readability.",
                     file_path, idx, MAX_LINE_LENGTH + 1)>>])

_find_trailing_whitespace(source, file_path) ==
    Flatten([idx \in 1..Len(source) |->
        LET last == LastNonSpace(source[idx])
        IN  IF last = Len(source[idx]) THEN << >>
            ELSE <<Issue("SS104", "Trailing whitespace", "low",
                         "Trailing whitespace reduces readability and creates noisy diffs.",
                         file_path, idx, StartOf(source[idx], last + 1) + 1)>>])

_find_large_file(source, file_path) ==
    IF Len(source) <= MAX_FILE_LINES THEN << >>
    ELSE <<Issue("SS106", "Large source file", "medium",
                 "File has " \o ToString(Len(source))
                     \o " lines; consider splitting responsibilities into smaller units.",
                 file_path, 1, 1)>>

DUPLICATE_BLOCK_WINDOW == 4
MAX_DUPLICATE_FINDINGS_PER_FILE == 20
MIN_BLOCK_LENGTH == 80

\* re.sub(r"\s+", " ", line).strip(): the line without leading and trailing
\* whitespace, every run of whitespace inside it one blank.
NormalizedLine(line) ==
    LET stripped == SubSeq(line, FirstNonSpace(line), LastNonSpace(line))
        blanks == [i \in 1..Len(stripped) |->
                      IF stripped[i] \notin Whitespace THEN stripped[i]
                      ELSE IF stripped[i - 1] \in Whitespace THEN "" ELSE " "]
    IN  SelectSeq(blanks, LAMBDA lexeme : lexeme # "")

\* A variant of the cut at MAX_DUPLICATE_FINDINGS_PER_FILE that cuts nothing.
Uncapped(found) == found

\* Lines 389-390: the loops stop once the list holds the maximum.
CappedFindings(found) ==
    IF Len(found) <= MAX_DUPLICATE_FINDINGS_PER_FILE THEN found
    ELSE SubSeq(found, 1, MAX_DUPLICATE_FINDINGS_PER_FILE)

\* windows maps each chunk to the lines where it starts, its values come in
\* the order of the first occurrences: the findings are the pairs (first
\* occurrence, later occurrence) in the order of the pairs.
_find_duplicate_blocks(source, file_path) ==
    IF Len(source) < DUPLICATE_BLOCK_WINDOW * 2 THEN << >>
    ELSE
    LET normalized == SubSeq([i \in 1..Len(source) |-> NormalizedLine(source[i])],
                             1, Len(source))
        length == SubSeq([i \in 1..Len(source) |-> LineLen(normalized[i])], 1, Len(source))
        last == Len(source) - DUPLICATE_BLOCK_WINDOW + 1
        kept(idx) ==
            /\ \A n \in idx..(idx + DUPLICATE_BLOCK_WINDOW - 1) : normalized[n] # << >>
            /\ length[idx] + length[idx + 1] + length[idx + 2] + length[idx + 3]
                   >= MIN_BLOCK_LENGTH
        same(j, idx) ==
            \A n \in 0..(DUPLICATE_BLOCK_WINDOW - 1) : normalized[j + n] = normalized[idx + n]
        is_first(key) == kept(key) /\ \A k \in 1..(key - 1) : ~(kept(k) /\ same(k, key))
        pairs == Flatten([key \in 1..last |-> [d \in 1..(last - key) |-> <<key, key + d>>]])
        repeats == SelectSeq(pairs, LAMBDA pair :
                       is_first(pair[1]) /\ kept(pair[2]) /\ same(pair[1], pair[2]))
    IN  CappedFindings(
            [n \in 1..Len(repeats) |->
                Issue("SS105", "Duplicated code block", "medium",
                      "Repeated 4-line block detected (first seen near line "
                          \o ToString(repeats[n][1]) \o ").",
                      file_path, repeats[n][2], 1)])

\* Dockerfiles.  The lexemes without whitespace and without a colon
\* ("[^\s:]+"); no lexeme of the model holds "curl" or "wget", so the
\* detector's third Issue (SS110) never arises.
PlainLexemes ==
    {"#", ",", "TODO", "fixme", "SS004", "ss004", "SS003", "reason", "eval(x)", "NUL",
     "package", "com.Example.Bad", "My_Pkg", ";", "const", "home", "pad1022", "func",
     "fun", "function", "public", "void", "run", "App", "()", "{", "}", "{}", "USER",
     "user", "root", "0", "app", "FROM", "node"}

\* line.strip()
strip(line) == SubSeq(line, FirstNonSpace(line), LastNonSpace(line))

\* stripped.upper().startswith("USER ")
IsUserInstruction(stripped) ==
    Len(stripped) >= 2 /\ upper(stripped[1]) = "USER" /\ stripped[2] = " "

\* stripped[5:].strip().lower() in {"root", "0"}
UserValueIsRoot(stripped) ==
    strip(SubSeq(stripped, 3, Len(stripped))) \in {<<"root">>, <<"0">>}

\* DOCKER_FROM_LATEST_PATTERN.search(stripped):
\* "^\s*FROM\s+[^\s:]+(?::latest)?\s*$"
DOCKER_FROM_LATEST_PATTERN(stripped) ==
    LET image == CHOOSE k \in 3..Len(stripped) :
                     /\ stripped[k] \notin Whitespace
                     /\ \A i \in 3..(k - 1) : stripped[i] \in Whitespace
    IN  /\ Len(stripped) >= 3
        /\ stripped[1] = "FROM"
        /\ stripped[2] \in Whitespace
        /\ \A i \in image..(Len(stripped) - 1) : stripped[i] \in PlainLexemes
        /\ stripped[Len(stripped)] \in PlainLexemes \cup {"node:latest"}

IsDockerfile(file_path) ==
    \/ lower(Code[file_path[Len(file_path)]]) = Code["dockerfile"]
    \/ lower(PathSuffix(file_path[Len(file_path)])) = Code[".dockerfile"]

_find_dockerfile_issues(source, file_path) ==
    IF ~IsDockerfile(file_path) THEN << >>
    ELSE
    LET instruction(idx) == /\ strip(source[idx]) # << >>
                            /\ strip(source[idx])[1] # "#"
        found(idx) ==
            IF ~instruction(idx) THEN << >>
            ELSE (IF IsUserInstruction(strip(source[idx])) /\ UserValueIsRoot(strip(source[idx]))
                  THEN <<Issue("SS108", "Dockerfile runs as root user", "high",
                               "Avoid running container processes as root; set a non-root USER.",
                               file_path, idx, 1)>>
                  ELSE << >>)
                 \o (IF DOCKER_FROM_LATEST_PATTERN(strip(source[idx]))
                     THEN <<Issue("SS109", "Unpinned Docker base image tag", "medium",
                                  "Pin Docker base images to explicit version tags instead of latest/implicit tags.",
                                  file_path, idx, 1)>>
                     ELSE << >>)
        has_user_instruction ==
            \E idx \in 1..Len(source) : instruction(idx) /\ IsUserInstruction(strip(source[idx]))
    IN  Flatten([idx \in 1..Len(source) |-> found(idx)])
            \o (IF has_user_instruction THEN << >>
                ELSE <<Issue("SS108", "Dockerfile runs as root user", "high",
                             "No USER instruction found; container likely runs as root by default.",
                             file_path, 1, 1)>>)

GenericRuleEngine_run(file) ==
    Flatten(<<Generic_find_todo_fixme(file.text, file.path),
              Generic_find_secrets(file.text, file.path),
              _find_conflict_markers(file.text, file.path),
              _find_dynamic_eval(file.text, file.path),
              _find_dockerfile_issues(file.text, file.path),
              _find_long_lines(file.text, file.path),
              _find_trailing_whitespace(file.text, file.path),
              _find_large_file(file.text, file.path),
              _find_duplicate_blocks(file.text, file.path)>>)

(***************************************************************************)
(* rules/python.py.  ast.parse is modelled on the lexemes.  What stands    *)
(* before the comment of a line is its code.  A line is sound when its     *)
(* code is blank or is one statement lexeme at column 1 followed by        *)
(* whitespace only.  The parser answers                                    *)
(*   - with a SyntaxError without position for a null byte anywhere;       *)
(*   - with an IndentationError at the last blank of the indentation for   *)
(*     code that does not start at column 1;                               *)
(*   - with a SyntaxError at the first lexeme the grammar rejects;         *)
(*   - with a RecursionError when the AST of a sound file is too deep.     *)
(* An optional integer (None or a value) is the empty set or {value}.      *)
(***************************************************************************)
PY_SECRET_PATTERN == {"password = 'hunter2!'"}
PyStatements == {"x = 1", "eval(x)", "password = 'hunter2!'", "token: 'abcd1234'",
                 "x = 1+1+...+1", "package", "const",
                 "pickle.loads(data)", "requests.get(url, verify=False)"}
PyEvalCalls == {"eval(x)"}
PyTooDeep == {"x = 1+1+...+1"}

\* The part of a line before its comment.
PyCodePart(line) ==
    LET hash == Search(line, {"#"})
    IN  IF hash > 0 THEN SubSeq(line, 1, hash - 1) ELSE line

\* The offset of the first thing in a line the parser objects to, 0 if
\* the line is sound.
PyErrorOffset(line) ==
    LET part == PyCodePart(line)
        k == FirstNonSpace(part)
        rest == {j \in 2..Len(part) : part[j] \notin Whitespace}
    IN  IF k > Len(part) THEN 0
        ELSE IF k > 1 THEN StartOf(part, k)
        ELSE IF part[1] \notin PyStatements THEN 1
        ELSE IF rest = {} THEN 0
        ELSE StartOf(part, CHOOSE j \in rest : \A m \in rest : j <= m) + 1

\* Classes.  The class blocks of the model have one shape: the header
\* "class Name:" at column 1, then methods, each a header " def name(self):"
\* indented by one blank and one or more statements indented by two.  The
\* statements of a method are assignments to a field of self, or pass.
PyFieldOf ==
    "self.a = 1" :> "a" @@ "self.b = 1" :> "b" @@ "self.c = 1" :> "c" @@
    "self.d = 1" :> "d" @@ "self.e = 1" :> "e" @@ "self.f = 1" :> "f"

\* The names of the classes (UpperCamelCase) and of the methods (snake_case
\* or dunder), and the names that start with "__".
PyClassNames == {"App"}
PyMethodNames == {"run", "home", "app", "root", "node", "user", "__init__"}
PyUnderscored == {"__init__"}

PyClassHeader(line) ==
    /\ Len(line) = 4
    /\ line[1] = "class" /\ line[2] = " " /\ line[3] \in PyClassNames /\ line[4] = ":"

PyDefHeader(line) ==
    /\ Len(line) = 5
    /\ line[1] = " " /\ line[2] = "def" /\ line[3] = " "
    /\ line[4] \in PyMethodNames /\ line[5] = "(self):"

PyBodyLine(line) ==
    /\ Len(line) = 3
    /\ line[1] = " " /\ line[2] = " " /\ line[3] \in DOMAIN PyFieldOf \cup {"pass"}

\* The last line of the block of the class header at line h: the lines
\* after the header that are method headers or statements of a method.
PyClassEnd(source, h) ==
    LET ends == {e \in h..Len(source) :
                    \A j \in (h + 1)..e : PyDefHeader(source[j]) \/ PyBodyLine(source[j])}
    IN  CHOOSE e \in ends : \A f \in ends : f <= e

\* The class headers whose block the grammar accepts: the block starts
\* with a method header and every method header has a statement after it.
PyClassLines(source) ==
    {h \in 1..Len(source) :
        /\ PyClassHeader(source[h])
        /\ h + 1 <= PyClassEnd(source, h)
        /\ PyDefHeader(source[h + 1])
        /\ \A j \in (h + 1)..PyClassEnd(source, h) :
               PyDefHeader(source[j]) =>
                   j + 1 <= PyClassEnd(source, h) /\ PyBodyLine(source[j + 1])}

\* The lines that belong to a class block.
PyInClass(source) ==
    UNION {h..PyClassEnd(source, h) : h \in PyClassLines(source)}

ast_parse(source) ==
    LET nul == {i \in 1..Len(source) : Search(source[i], {"NUL"}) > 0}
        bad == {i \in 1..Len(source) \ PyInClass(source) : PyErrorOffset(source[i]) > 0}
        deep == {i \in 1..Len(source) : Search(PyCodePart(source[i]), PyTooDeep) > 0}
    IN  IF nul # {}
        THEN [kind |-> "SyntaxError", lineno |-> {}, offset |-> {}]
        ELSE IF bad # {}
        THEN LET i == CHOOSE b \in bad : \A c \in bad : b <= c
             IN  [kind |-> "SyntaxError", lineno |-> {i},
                  offset |-> {PyErrorOffset(source[i])}]
        ELSE IF deep # {}
        THEN [kind |-> "RecursionError", lineno |-> {}, offset |-> {}]
        ELSE [kind |-> "Module", lineno |-> {}, offset |-> {}]

\* A variant of OrOne that keeps a missing position at 0.
OrZero(v) == IF v = {} THEN 0 ELSE CHOOSE n \in v : TRUE

\* Python's "v or 1" on an optional integer: 1 for None and for 0.
OrOne(v) == IF v = {} \/ v = {0} THEN 1 ELSE CHOOSE n \in v : TRUE

Python_find_todo_fixme(source, file_path) ==
    Flatten([idx \in 1..Len(source) |->
        LET k == Search(source[idx], TODO_FIXME_PATTERN)
        IN  IF k > 0
            THEN <<Issue("SS004", "Work item marker in source", "low",
                         "Found TODO/FIXME marker. Track and resolve before release.",
                         file_path, idx, StartOf(source[idx], k) + 1)>>
            ELSE << >>])

Python_find_secrets(source, file_path) ==
    Flatten([idx \in 1..Len(source) |->
        IF Search(source[idx], PY_SECRET_PATTERN) > 0
        THEN <<Issue("SS003", "Potential hardcoded secret", "high",
                     "Potential credential/token assignment found in source.",
                     file_path, idx, 1)>>
        ELSE << >>])

\* The floats of the scorer.  A float is kept exactly, as an integer number
\* of units of 2^-62 held in four limbs of 20 bits, least significant first;
\* the results of the operations are rounded to 53 significant bits, ties to
\* the even one, as binary64 arithmetic rounds them.  The representation
\* covers the floats from 2^-8 up to 16, which hold the scores, their sums
\* and their means for classes of up to six fields.
RECURSIVE PowerOfTwo(_)
PowerOfTwo(k) == IF k = 0 THEN 1 ELSE 2 * PowerOfTwo(k - 1)

LimbBase == PowerOfTwo(20)

FloatZero == <<0, 0, 0, 0>>

BigAdd(x, y) ==
    LET s1 == x[1] + y[1]
        s2 == x[2] + y[2] + (s1 \div LimbBase)
        s3 == x[3] + y[3] + (s2 \div LimbBase)
        s4 == x[4] + y[4] + (s3 \div LimbBase)
    IN  <<s1 % LimbBase, s2 % LimbBase, s3 % LimbBase, s4>>

\* The quotient and the remainder of a division by a small integer.
BigDiv(x, n) ==
    LET t3 == (x[4] % n) * LimbBase + x[3]
        t2 == (t3 % n) * LimbBase + x[2]
        t1 == (t2 % n) * LimbBase + x[1]
    IN  [quot |-> <<t1 \div n, t2 \div n, t3 \div n, x[4] \div n>>, rem |-> t1 % n]

RECURSIVE BitLength(_)
BitLength(k) == IF k = 0 THEN 0 ELSE 1 + BitLength(k \div 2)

BigBits(x) ==
    IF x[4] > 0 THEN 60 + BitLength(x[4])
    ELSE IF x[3] > 0 THEN 40 + BitLength(x[3])
    ELSE IF x[2] > 0 THEN 20 + BitLength(x[2])
    ELSE BitLength(x[1])

\* Round to nearest, ties to even: the bits below the 53 leading ones are
\* dropped (there are fewer than 20 of them); inexact tells that the exact
\* value lies above x.
RoundToNearestEven(x, inexact) ==
    LET k == BigBits(x) - 53
        unit == PowerOfTwo(k)
        low == x[1] % unit
        kept == <<x[1] - low, x[2], x[3], x[4]>>
        up == \/ 2 * low > unit
              \/ 2 * low = unit /\ (inexact \/ (x[1] \div unit) % 2 = 1)
    IN  IF k <= 0 THEN x
        ELSE IF up THEN BigAdd(kept, <<unit, 0, 0, 0>>)
        ELSE kept

\* p / q for two ints, 0 <= p <= q.
FloatOfRatio(p, q) ==
    LET division == BigDiv(<<0, 0, 0, 4 * p>>, q)
    IN  RoundToNearestEven(division.quot, division.rem # 0)

FloatAdd(x, y) == RoundToNearestEven(BigAdd(x, y), FALSE)

\* x / n for a float and an int.
FloatOverInt(x, n) ==
    LET division == BigDiv(x, n)
    IN  RoundToNearestEven(division.quot, division.rem # 0)

FloatLess(x, y) ==
    \E i \in 1..4 : x[i] < y[i] /\ \A j \in (i + 1)..4 : x[j] = y[j]

\* sum(scores): the builtin adds the floats from left to right, starting
\* from 0.
RECURSIVE FloatSum(_)
FloatSum(scores) ==
    IF scores = << >> THEN FloatZero
    ELSE CHOOSE total \in {FloatAdd(result, scores[Len(scores)]) :
                              result \in {FloatSum(SubSeq(scores, 1, Len(scores) - 1))}} : TRUE

\* itertools.combinations(range(1, n + 1), 2), in its order.
combinations(n) ==
    Flatten([i \in 1..n |-> [k \in 1..(n - i) |-> <<i, i + k>>]])

\* _python_class_cohesion / _java_class_cohesion on the field sets of the
\* methods: None ({}) or {the mean of the scores}.  (The union of two
\* non-empty sets is not empty, so no pair is passed over and the list of
\* scores of three useful methods is not empty.)
Cohesion(field_sets) ==
    LET useful == SelectSeq(field_sets, LAMBDA fields : fields # {})
        pairs == combinations(Len(useful))
        scores == [p \in 1..Len(pairs) |->
                      FloatOfRatio(Cardinality(useful[pairs[p][1]] \cap useful[pairs[p][2]]),
                                   Cardinality(useful[pairs[p][1]] \cup useful[pairs[p][2]]))]
    IN  IF Len(useful) < 3 THEN {}
        ELSE {FloatOverInt(FloatSum(scores), Len(scores))}

\* The float of the literal 0.15.
MIN_COHESION_AVG == FloatOfRatio(15, 100)

\* cohesion is not None and cohesion < MIN_COHESION_AVG.
LowCohesion(cohesion) == \E score \in cohesion : FloatLess(score, MIN_COHESION_AVG)

\* The ClassDef nodes of tree.body, in order: lineno, name and the lines
\* of the FunctionDef nodes of the class body.
PyClassDefs(source) ==
    LET at == SelectSeq([i \in 1..Len(source) |-> i], LAMBDA i : i \in PyClassLines(source))
    IN  [n \in 1..Len(at) |->
            [lineno |-> at[n], name |-> source[at[n]][3],
             body |-> SelectSeq([i \in 1..Len(source) |-> i],
                          LAMBDA i : /\ at[n] < i /\ i <= PyClassEnd(source, at[n])
                                     /\ PyDefHeader(source[i]))]]

\* The fields of self a method refers to: those of the statements between
\* its header at line j and the next header or the end of the class.
_self_fields_in_method(source, j, class_end) ==
    {PyFieldOf[source[i][3]] :
        i \in {k \in (j + 1)..class_end :
                  /\ \A m \in (j + 1)..k : PyBodyLine(source[m])
                  /\ source[k][3] \in DOMAIN PyFieldOf}}

\* Lines 259-297 of _find_structural_quality_issues: the methods of a class
\* are the functions of its body whose names do not start with "__".  (The
\* message is kept without the score.  No file of the model has more than
\* 15 methods in a class, 20 imports or 20 functions.)
Python_find_structural_quality_issues(source, file_path) ==
    LET class_nodes == PyClassDefs(source)
    IN  Flatten([n \in 1..Len(class_nodes) |->
            LET class_node == class_nodes[n]
                methods == SelectSeq(class_node.body,
                               LAMBDA j : source[j][4] \notin PyUnderscored)
                field_sets == [m \in 1..Len(methods) |->
                                  _self_fields_in_method(source, methods[m],
                                      PyClassEnd(source, class_node.lineno))]
            IN  IF LowCohesion(Cohesion(field_sets))
                THEN <<Issue("SS218", "Low class cohesion", "medium",
                             "Class '" \o class_node.name
                                 \o "' methods share little common state.",
                             file_path, class_node.lineno, 1)>>
                ELSE << >>])

\* The Call nodes of eval/exec: node.lineno is the line, node.col_offset
\* the number of characters before the call.
_analyze_ast(source, file_path) ==
    LET tree == ast_parse(source)
    IN  IF tree.kind = "SyntaxError"
        THEN <<Issue("SS000", "Syntax error", "medium", "Could not parse file",
                     file_path, OrOne(tree.lineno), OrOne(tree.offset))>>
        ELSE Flatten([idx \in 1..Len(source) |->
                LET k == Search(PyCodePart(source[idx]), PyEvalCalls)
                IN  IF k > 0
                    THEN <<Issue("SS001", "Dangerous dynamic execution", "critical",
                                 "Avoid eval() because it executes dynamic code.",
                                 file_path, idx, StartOf(source[idx], k) + 1)>>
                    ELSE << >>])
             \o Python_find_structural_quality_issues(source, file_path)

PythonRuleEngine_run(file) ==
    Flatten(<<Python_find_todo_fixme(file.text, file.path),
              Python_find_secrets(file.text, file.path),
              _analyze_ast(file.text, file.path)>>)

\* An exception other than SyntaxError leaves _analyze_ast and run.
PythonRuleEngine_raises(file) == ast_parse(file.text).kind = "RecursionError"

(***************************************************************************)
(* rules/java.py, go.py, kotlin.py, javascript.py: each engine runs the    *)
(* generic engine first and appends its own findings.  Of the              *)
(* language-specific detectors the package-naming ones (Java, Go, Kotlin), *)
(* the component-naming one (JavaScript), the method-naming one (Java) and *)
(* the function-length ones are modelled; their patterns are anchored at   *)
(* the start of the line ("^\s*").                                         *)
(***************************************************************************)
\* Position of the first lexeme at or after j that is not whitespace.
NextNonSpace(line, j) ==
    LET ks == {k \in j..Len(line) : line[k] \notin Whitespace}
    IN  IF ks = {} THEN Len(line) + 1 ELSE CHOOSE k \in ks : \A i \in ks : k <= i

\* "^\s*keyword\s+(name)": the position of the name (group 1) when the
\* line starts with the keyword and whitespace, and a lexeme of Names
\* follows; 0 otherwise.
KeywordThenName(line, keyword, Names) ==
    LET k == FirstNonSpace(line)
        m == NextNonSpace(line, k + 2)
    IN  IF /\ k + 1 <= Len(line)
           /\ line[k] = keyword
           /\ line[k + 1] \in Whitespace
           /\ m <= Len(line)
           /\ line[m] \in Names
        THEN m ELSE 0

\* Package names: the Java and Kotlin patterns take dotted names, Go's does
\* not; none of the three conventions accepts either of these names.
DottedPackageNames == {"com.Example.Bad", "My_Pkg"}
PlainPackageNames == {"My_Pkg"}

Java_find_package_naming(source, file_path) ==
    Flatten([idx \in 1..Len(source) |->
        LET m == KeywordThenName(source[idx], "package", DottedPackageNames)
            semi == NextNonSpace(source[idx], m + 1)
        IN  IF m > 0 /\ semi <= Len(source[idx]) /\ source[idx][semi] = ";"
            THEN <<Issue("SS201", "Java package naming convention", "low",
                         "Use lower-case dot-separated package names (for example: com.company.feature).",
                         file_path, idx, StartOf(source[idx], m) + 1)>>
            ELSE << >>])

Go_find_package_naming(source, file_path) ==
    Flatten([idx \in 1..Len(source) |->
        LET m == KeywordThenName(source[idx], "package", PlainPackageNames)
        IN  IF m > 0 /\ LastNonSpace(source[idx]) = m
            THEN <<Issue("SS401", "Go package naming convention", "low",
                         "Go package names should be short lowercase identifiers.",
                         file_path, idx, StartOf(source[idx], m) + 1)>>
            ELSE << >>])

Kotlin_find_package_naming(source, file_path) ==
    Flatten([idx \in 1..Len(source) |->
        LET m == KeywordThenName(source[idx], "package", DottedPackageNames)
        IN  IF m > 0 /\ LastNonSpace(source[idx]) = m
            THEN <<Issue("SS501", "Kotlin package naming convention", "low",
                         "Use lower-case dot-separated package names (for example: com.company.feature).",
                         file_path, idx, StartOf(source[idx], m) + 1)>>
            ELSE << >>])

\* An arrow function that returns JSX and whose name is not UpperCamelCase.
_find_naming_issues(source, file_path) ==
    Flatten([idx \in 1..Len(source) |->
        LET m == KeywordThenName(source[idx], "const", {"home"})
            arrow == NextNonSpace(source[idx], m + 1)
        IN  IF /\ m > 0
               /\ arrow <= Len(source[idx])
               /\ source[idx][arrow] = "= () => <div>Home</div>;"
            THEN <<Issue("SS302", "React component naming convention", "low",
                         "React component names should be UpperCamelCase.",
                         file_path, idx, StartOf(source[idx], m) + 1)>>
            ELSE << >>])

(***************************************************************************)
(* javascript.py: command execution.  The statements of the model that     *)
(* the child_process patterns match are lexemes; a pattern matches a line  *)
(* of code when one of its lexemes is there (at the start of the code for  *)
(* the import patterns, which are anchored).                                *)
(***************************************************************************)
\* _strip_js_line_comment(line).strip(): nothing for a line whose first
\* characters are "//", else the line up to its first "//" (one inside a
\* string literal included; what stands before it in that lexeme matches
\* no pattern), without the whitespace around it.
_strip_js_line_comment(line) ==
    LET first == FirstNonSpace(line)
        slashes == Search(line, {"//", "const u = 'a//b';"})
        cut == IF slashes = 0 THEN line ELSE SubSeq(line, 1, slashes - 1)
    IN  IF first <= Len(line) /\ line[first] = "//" THEN << >>
        ELSE SubSeq(cut, FirstNonSpace(cut), LastNonSpace(cut))

\* _extract_child_process_exec_aliases on group 1 of the two destructuring
\* patterns: the names bound to exec or execSync.
_extract_child_process_exec_aliases ==
    "const { exec } = require('child_process');" :> {"exec"} @@
    "const { exec: run } = require('child_process');" :> {"run"} @@
    "const { spawn } = require('child_process');" :> {} @@
    "import { execSync as run } from 'child_process';" :> {"run"}

CHILD_PROCESS_REQUIRE_DESTRUCTURED_PATTERN ==
    {"const { exec } = require('child_process');",
     "const { exec: run } = require('child_process');",
     "const { spawn } = require('child_process');"}

\* The pattern has no anchor at its end: it matches a require that is
\* followed by a call as well.  Group 1 of the match.
CHILD_PROCESS_REQUIRE_NAMESPACE_PATTERN ==
    "const cp = require('child_process');" :> "cp" @@
    "const out = require('child_process').execSync(cmd);" :> "out"

CHILD_PROCESS_IMPORT_DESTRUCTURED_PATTERN ==
    {"import { execSync as run } from 'child_process';"}

CHILD_PROCESS_IMPORT_NAMESPACE_PATTERN == "import * as cp from 'child_process';" :> "cp"

CHILD_PROCESS_IMPORT_DEFAULT_PATTERN == "import cp from 'child_process';" :> "cp"

CHILD_PROCESS_INLINE_EXEC_PATTERN ==
    {"require('child_process').exec(cmd);",
     "const out = require('child_process').execSync(cmd);"}

\* The names of direct_exec_names for which rf"\b{name}\s*\(" matches in a
\* lexeme, and the names for which rf"\b{name}\s*\.\s*exec(?:Sync)?\s*\("
\* does.
DirectCallOf ==
    "exec(cmd);" :> {"exec"} @@ "run(cmd);" :> {"run"} @@ "cp.exec(cmd);" :> {"exec"} @@
    "child_process.exec(cmd);" :> {"exec"} @@ "require('child_process').exec(cmd);" :> {"exec"}

NamespaceCallOf ==
    "cp.exec(cmd);" :> {"cp"} @@ "cp.execSync(cmd);" :> {"cp"} @@
    "child_process.exec(cmd);" :> {"child_process"}

\* What the five binding branches of the loop do with a line of code: the
\* first pattern that matches decides, and the line is then passed over.
JsBinding(code) ==
    LET at(S) == Search(code, S)
    IN  IF at(CHILD_PROCESS_REQUIRE_DESTRUCTURED_PATTERN) > 0
        THEN [bound |-> TRUE, namespace |-> {},
              direct |-> _extract_child_process_exec_aliases[
                             code[at(CHILD_PROCESS_REQUIRE_DESTRUCTURED_PATTERN)]]]
        ELSE IF at(DOMAIN CHILD_PROCESS_REQUIRE_NAMESPACE_PATTERN) > 0
        THEN [bound |-> TRUE, direct |-> {},
              namespace |-> {CHILD_PROCESS_REQUIRE_NAMESPACE_PATTERN[
                                code[at(DOMAIN CHILD_PROCESS_REQUIRE_NAMESPACE_PATTERN)]]}]
        ELSE IF code[1] \in CHILD_PROCESS_IMPORT_DESTRUCTURED_PATTERN
        THEN [bound |-> TRUE, namespace |-> {},
              direct |-> _extract_child_process_exec_aliases[code[1]]]
        ELSE IF code[1] \in DOMAIN CHILD_PROCESS_IMPORT_NAMESPACE_PATTERN
        THEN [bound |-> TRUE, direct |-> {},
              namespace |-> {CHILD_PROCESS_IMPORT_NAMESPACE_PATTERN[code[1]]}]
        ELSE IF code[1] \in DOMAIN CHILD_PROCESS_IMPORT_DEFAULT_PATTERN
        THEN [bound |-> TRUE, direct |-> {},
              namespace |-> {CHILD_PROCESS_IMPORT_DEFAULT_PATTERN[code[1]]}]
        ELSE [bound |-> FALSE, direct |-> {}, namespace |-> {}]

\* direct_exec_names and namespace_exec_names when the loop reaches line
\* idx: what the lines before it have bound.
NamesBefore(source, idx) ==
    LET codes == {_strip_js_line_comment(source[j]) : j \in 1..(idx - 1)} \ {<< >>}
    IN  [direct |-> UNION {JsBinding(code).direct : code \in codes},
         namespace |-> {"child_process"} \cup UNION {JsBinding(code).namespace : code \in codes}]

JavaScript_find_command_execution(source, file_path) ==
    Flatten([idx \in 1..Len(source) |->
        LET code == _strip_js_line_comment(source[idx])
            names == NamesBefore(source, idx)
            calls(table, bound) ==
                \E k \in 1..Len(code) : code[k] \in DOMAIN table /\ table[code[k]] \cap bound # {}
        IN  IF /\ code # << >>
               /\ ~JsBinding(code).bound
               /\ \/ Search(code, CHILD_PROCESS_INLINE_EXEC_PATTERN) > 0
                  \/ calls(DirectCallOf, names.direct)
                  \/ calls(NamespaceCallOf, names.namespace)
            THEN <<Issue("SS306", "Node.js command execution usage", "high",
                         "Review child_process exec/execSync usage for command injection risks.",
                         file_path, idx, 1)>>
            ELSE << >>])

(***************************************************************************)
(* The length of functions and methods.  The four engines run the same     *)
(* loop over the lines: a line that matches the engine's header pattern    *)
(* and has a "{" starts a block, the braces of the lines are counted until *)
(* the depth is back at 0 or the file ends, and the loop goes on after the *)
(* last line of the block.  Parameter lists are the lexeme "()", so the    *)
(* parameter-count Issues of the same loops (SS206, SS303) never arise.    *)
(***************************************************************************)
MAX_FUNCTION_LINES == 60
MAX_METHOD_LINES == 60

\* The lexemes that are one word ("\w+").
WordLexemes ==
    {"TODO", "fixme", "SS004", "ss004", "SS003", "reason", "package", "My_Pkg",
     "const", "home", "func", "fun", "function", "public", "void", "run", "App",
     "USER", "user", "root", "app", "FROM", "node", "class", "def", "__init__", "pass"}

\* line.count("{") and line.count("}")
BraceCount(line, brace) ==
    Cardinality({k \in 1..Len(line) :
        \/ brace = "{" /\ line[k] \in {"{", "{}"}
        \/ brace = "}" /\ line[k] \in {"}", "{}"}})

\* The last lexeme of the word that starts at position m (word lexemes
\* with nothing between them are one word).
WordEnd(line, m) ==
    LET ends == {e \in m..Len(line) :
                    /\ \A i \in m..e : line[i] \in WordLexemes
                    /\ e + 1 > Len(line) \/ line[e + 1] \notin WordLexemes}
    IN  IF ends = {} THEN m ELSE CHOOSE e \in ends : TRUE

\* "^\s*keyword\s+(name)\s*\(([^)]*)\)": the position of the name, 0 for
\* no match.
KeywordNameParams(line, keyword) ==
    LET m == KeywordThenName(line, keyword, WordLexemes)
        p == NextNonSpace(line, WordEnd(line, m) + 1)
    IN  IF m > 0 /\ p <= Len(line) /\ line[p] = "()" THEN m ELSE 0

\* go.py
FUNC_PATTERN(line) == KeywordNameParams(line, "func")

\* kotlin.py (no line of the model starts with "suspend")
FUNCTION_PATTERN(line) == KeywordNameParams(line, "fun")

\* javascript.py
FUNCTION_DECL_PATTERN(line) == KeywordNameParams(line, "function")

\* "^\s*(?:const|let|var)\s+(name)\s*=\s*\(([^)]*)\)\s*=>"
ARROW_DECL_PATTERN(line) ==
    LET m == KeywordThenName(line, "const", WordLexemes)
        p == NextNonSpace(line, WordEnd(line, m) + 1)
    IN  IF m > 0 /\ p <= Len(line) /\ line[p] = "= () =>" THEN m ELSE 0

\* java.py: one or more modifiers or whitespace characters, a type (a
\* shortest run of word characters, blanks and commas), whitespace, the
\* name, the parameters up to a ")" with no ";" before it, and "{" ("throws"
\* is no lexeme of the model).  The position of the name, 0 for no match.
METHOD_PATTERN(line) ==
    LET closes(p) == \E q \in p..Len(line) :
                        /\ line[q] = "()"
                        /\ \A i \in p..q : line[i] # ";"
                        /\ NextNonSpace(line, q + 1) <= Len(line)
                        /\ line[NextNonSpace(line, q + 1)] \in {"{", "{}"}
        names == {m \in 4..Len(line) :
                     /\ line[m] \in WordLexemes
                     /\ \E p \in 1..(m - 3) : \E t \in (p + 1)..(m - 2) :
                            /\ \A i \in 1..p : line[i] \in {"public"} \cup Whitespace
                            /\ \A i \in (p + 1)..t : line[i] \in WordLexemes \cup {" ", ","}
                            /\ \A i \in (t + 1)..(m - 1) : line[i] \in Whitespace
                     /\ NextNonSpace(line, WordEnd(line, m) + 1) <= Len(line)
                     /\ line[NextNonSpace(line, WordEnd(line, m) + 1)] = "()"
                     /\ closes(NextNonSpace(line, WordEnd(line, m) + 1))}
    IN  IF names = {} THEN 0 ELSE CHOOSE m \in names : \A n \in names : m <= n

\* A variant of the inner loop that stops one line before the end of the
\* file.
RECURSIVE BlockEndBeforeLast(_, _, _)
BlockEndBeforeLast(lines, end_idx, depth) ==
    IF depth > 0 /\ end_idx + 1 < Len(lines)
    THEN BlockEndBeforeLast(lines, end_idx + 1,
                            depth + BraceCount(lines[end_idx + 1], "{")
                                  - BraceCount(lines[end_idx + 1], "}"))
    ELSE end_idx

\* The inner loop: the index of the last line of the block that starts at
\* the header, depth being the net count of the lines up to end_idx.
RECURSIVE BlockEnd(_, _, _)
BlockEnd(lines, end_idx, depth) ==
    IF depth > 0 /\ end_idx + 1 <= Len(lines)
    THEN BlockEnd(lines, end_idx + 1,
                  depth + BraceCount(lines[end_idx + 1], "{") - BraceCount(lines[end_idx + 1], "}"))
    ELSE end_idx

\* A variant of the outer loop that goes on at the line after the header.
RECURSIVE MeasuredAtEveryHeader(_, _, _)
MeasuredAtEveryHeader(lines, heads, idx) ==
    IF idx > Len(lines) THEN << >>
    ELSE IF heads[idx] = 0 \/ BraceCount(lines[idx], "{") = 0
    THEN MeasuredAtEveryHeader(lines, heads, idx + 1)
    ELSE LET end_idx == BlockEnd(lines, idx, BraceCount(lines[idx], "{")
                                               - BraceCount(lines[idx], "}"))
         IN  <<[line |-> idx, fn_lines |-> end_idx - idx + 1]>>
                 \o MeasuredAtEveryHeader(lines, heads, idx + 1)

\* The outer loop from line idx on: the blocks it measures, heads[i] being
\* the position of the name in line i, 0 when line i is no header.
RECURSIVE MeasuredBlocks(_, _, _)
MeasuredBlocks(lines, heads, idx) ==
    IF idx > Len(lines) THEN << >>
    ELSE IF heads[idx] = 0 \/ BraceCount(lines[idx], "{") = 0
    THEN MeasuredBlocks(lines, heads, idx + 1)
    ELSE LET end_idx == BlockEnd(lines, idx, BraceCount(lines[idx], "{") - BraceCount(lines[idx], "}"))
         IN  <<[line |-> idx, fn_lines |-> end_idx - idx + 1]>>
                 \o MeasuredBlocks(lines, heads, end_idx + 1)

\* The Issues of the blocks that are too long.
LengthIssues(blocks, lines, heads, file_path, rule_id, title, what, target) ==
    [n \in 1..Len(blocks) |->
        Issue(rule_id, title, "medium",
              what \o " spans " \o ToString(blocks[n].fn_lines)
                   \o " lines; target at most " \o ToString(target) \o ".",
              file_path, blocks[n].line,
              StartOf(lines[blocks[n].line], heads[blocks[n].line]) + 1)]

\* file_path.stem
PathStem(name) == SubSeq(Code[name], 1, Len(Code[name]) - Len(PathSuffix(name)))

Go_find_function_length(source, file_path) ==
    LET heads == SubSeq([i \in 1..Len(source) |-> FUNC_PATTERN(source[i])], 1, Len(source))
        long == SelectSeq(MeasuredBlocks(source, heads, 1),
                          LAMBDA b : b.fn_lines > MAX_FUNCTION_LINES)
    IN  LengthIssues(long, source, heads, file_path, "SS404", "Go function too long",
                     "Function", MAX_FUNCTION_LINES)

Kotlin_find_function_length(source, file_path) ==
    LET heads == SubSeq([i \in 1..Len(source) |-> FUNCTION_PATTERN(source[i])], 1, Len(source))
        long == SelectSeq(MeasuredBlocks(source, heads, 1),
                          LAMBDA b : b.fn_lines > MAX_FUNCTION_LINES)
    IN  LengthIssues(long, source, heads, file_path, "SS505", "Kotlin function too long",
                     "Function", MAX_FUNCTION_LINES)

_find_function_size_and_params(source, file_path) ==
    LET heads == SubSeq([i \in 1..Len(source) |->
                            IF FUNCTION_DECL_PATTERN(source[i]) > 0
                            THEN FUNCTION_DECL_PATTERN(source[i])
                            ELSE ARROW_DECL_PATTERN(source[i])], 1, Len(source))
        long == SelectSeq(MeasuredBlocks(source, heads, 1),
                          LAMBDA b : b.fn_lines > MAX_FUNCTION_LINES)
    IN  LengthIssues(long, source, heads, file_path, "SS304", "JavaScript function too long",
                     "Function", MAX_FUNCTION_LINES)

\* method_name == file_path.stem, for the name at position m of a line (no
\* file of the model has a stem of two word lexemes).
_is_constructor_name(line, m, file_path) ==
    /\ WordEnd(line, m) = m
    /\ line[m] \in DOMAIN Code
    /\ Code[line[m]] = PathStem(file_path[Len(file_path)])

\* The word lexemes that start with a lower-case letter, and the one with
\* a character that is neither a letter nor a digit.
LowerCaseStart ==
    {"fixme", "ss004", "reason", "package", "const", "home", "func", "fun",
     "function", "public", "void", "run", "user", "root", "app", "node",
     "class", "def", "pass"}

\* "[a-z][A-Za-z0-9]*" for the name at position m of a line.
_is_lower_camel_case(line, m) ==
    /\ line[m] \in LowerCaseStart
    /\ \A i \in m..WordEnd(line, m) : line[i] # "My_Pkg"

\* (The keywords the detector passes over, "if" and the like, are no
\* lexemes of the model.)
_find_method_naming(source, file_path) ==
    Flatten([idx \in 1..Len(source) |->
        LET m == METHOD_PATTERN(source[idx])
        IN  IF /\ m > 0
               /\ ~_is_constructor_name(source[idx], m, file_path)
               /\ ~_is_lower_camel_case(source[idx], m)
            THEN <<Issue("SS204", "Java method naming convention", "low",
                         "Method names should be lowerCamelCase.",
                         file_path, idx, StartOf(source[idx], m) + 1)>>
            ELSE << >>])

_find_method_size_and_params(source, file_path) ==
    LET heads == SubSeq([i \in 1..Len(source) |-> METHOD_PATTERN(source[i])], 1, Len(source))
        long == SelectSeq(MeasuredBlocks(source, heads, 1),
                          LAMBDA b : /\ b.fn_lines > MAX_METHOD_LINES
                                     /\ ~_is_constructor_name(source[b.line], heads[b.line],
                                                              file_path))
    IN  LengthIssues(long, source, heads, file_path, "SS207", "Java method too long",
                     "Method", MAX_METHOD_LINES)

\* java.py, "^\s*(?:public|...|\s)*\s*(class|interface|enum|record)\s+(name)\b":
\* the position of the name of a class, 0 for no match ("interface", "enum"
\* and "record" are no lexemes of the model).
TYPE_PATTERN(line) ==
    LET c == Search(line, {"class"})
        m == NextNonSpace(line, c + 1)
    IN  IF /\ c > 0
           /\ \A i \in 1..(c - 1) : line[i] \in {"public"} \cup Whitespace
           /\ m > c + 1 /\ m <= Len(line)
           /\ line[m] \in WordLexemes
        THEN m ELSE 0

\* "[A-Z][A-Za-z0-9]*" for the word lexemes.
UpperCamelCase == {"TODO", "SS004", "SS003", "App", "USER", "FROM"}

\* The first line that declares a class between blanks and starts, after
\* its indentation, with "public " or "class ": its number, 0 if none.
TopLevelType(source) ==
    LET tops == {idx \in 1..Len(source) :
                    LET line == source[idx]
                        f == FirstNonSpace(line)
                    IN  /\ TYPE_PATTERN(line) > 0
                        /\ \E k \in 1..Len(line) :
                               /\ line[k] = "class"
                               /\ k = 1 \/ line[k - 1] = " "
                               /\ k = Len(line) \/ line[k + 1] = " "
                        /\ f < Len(line)
                        /\ line[f] \in {"public", "class"} /\ line[f + 1] = " "}
    IN  IF tops = {} THEN 0 ELSE CHOOSE idx \in tops : \A j \in tops : idx <= j

\* (The names of the model's types are one lexeme long.)
_find_type_naming(source, file_path) ==
    LET top == TopLevelType(source)
    IN  Flatten([idx \in 1..Len(source) |->
            LET m == TYPE_PATTERN(source[idx])
            IN  IF m > 0 /\ source[idx][m] \notin UpperCamelCase
                THEN <<Issue("SS202", "Java type naming convention", "medium",
                             "Class/interface/enum/record names should be UpperCamelCase.",
                             file_path, idx, StartOf(source[idx], m) + 1)>>
                ELSE << >>])
        \o (IF top > 0 /\ ~_is_constructor_name(source[top], TYPE_PATTERN(source[top]), file_path)
            THEN <<Issue("SS203", "Java class/file naming mismatch", "medium",
                         "Top-level public class '" \o source[top][TYPE_PATTERN(source[top])]
                             \o "' should be declared in '"
                             \o source[top][TYPE_PATTERN(source[top])] \o ".java'.",
                         file_path, top, StartOf(source[top], TYPE_PATTERN(source[top])) + 1)>>
            ELSE << >>)

\* _java_class_ranges from line idx on: for each class the name, the line
\* of the declaration and the last line of its block, which starts at the
\* first line with a "{" and ends where the braces are balanced or at the
\* last line of the file.
RECURSIVE _java_class_ranges(_, _)
_java_class_ranges(lines, idx) ==
    IF idx > Len(lines) THEN << >>
    ELSE IF TYPE_PATTERN(lines[idx]) = 0 THEN _java_class_ranges(lines, idx + 1)
    ELSE LET opens == {i \in idx..Len(lines) : BraceCount(lines[i], "{") > 0}
             open_idx == CHOOSE i \in opens : \A j \in opens : i <= j
             end_idx == BlockEnd(lines, open_idx, BraceCount(lines[open_idx], "{")
                                                   - BraceCount(lines[open_idx], "}"))
         IN  IF opens = {} THEN << >>
             ELSE <<[class_name |-> lines[idx][TYPE_PATTERN(lines[idx])],
                     class_line |-> idx, end_idx |-> end_idx]>>
                      \o _java_class_ranges(lines, end_idx + 1)

\* _java_method_ranges: the blocks of the method headers of the lines
\* start_idx..end_idx, as first and last line.
_java_method_ranges(lines, start_idx, end_idx) ==
    LET class_lines == SubSeq(lines, start_idx, end_idx)
        heads == SubSeq([i \in 1..Len(class_lines) |-> METHOD_PATTERN(class_lines[i])],
                        1, Len(class_lines))
        blocks == MeasuredBlocks(class_lines, heads, 1)
    IN  [n \in 1..Len(blocks) |->
            [start |-> start_idx + blocks[n].line - 1,
             end |-> start_idx + blocks[n].line - 1 + blocks[n].fn_lines - 1]]

\* re.findall(r"\bthis\.([A-Za-z_]\w*)\b", body) for the lines start..end.
JavaFieldOf ==
    "this.a = 1;" :> "a" @@ "this.b = 1;" :> "b" @@ "this.c = 1;" :> "c" @@
    "this.d = 1;" :> "d" @@ "this.e = 1;" :> "e" @@ "this.f = 1;" :> "f"

JavaFields(lines, start, end) ==
    UNION {{JavaFieldOf[lines[i][k]] :
               k \in {q \in 1..Len(lines[i]) : lines[i][q] \in DOMAIN JavaFieldOf}} :
           i \in start..end}

\* Lines 274-310 of _find_structural_quality_issues.  (The message is kept
\* without the score.  No file of the model has more than 20 methods in a
\* class or 30 imports.)
Java_find_structural_quality_issues(source, file_path) ==
    LET ranges == _java_class_ranges(source, 1)
    IN  Flatten([n \in 1..Len(ranges) |->
            LET methods == _java_method_ranges(source, ranges[n].class_line, ranges[n].end_idx)
                field_sets == [m \in 1..Len(methods) |->
                                  JavaFields(source, methods[m].start, methods[m].end)]
            IN  IF LowCohesion(Cohesion(field_sets))
                THEN <<Issue("SS220", "Low class cohesion", "medium",
                             "Class '" \o ranges[n].class_name
                                 \o "' methods share little common state.",
                             file_path, ranges[n].class_line, 1)>>
                ELSE << >>])

\* The nesting depth.  The four engines run the same loop over the lines:
\* the opening braces of a line are added to the depth, depth - 1 is
\* compared with the maximum, and then the closing braces of the line are
\* taken off.
MAX_NESTING_DEPTH == 4

Max(a, b) == IF a >= b THEN a ELSE b

\* The opening braces less the closing braces of the lines i..j.
RECURSIVE Depth(_, _, _)
Depth(text, i, j) ==
    IF j < i THEN 0
    ELSE Depth(text, i, j - 1) + BraceCount(text[j], "{") - BraceCount(text[j], "}")

\* max_depth after the loop: at line idx the depth is that of the lines
\* before it plus the opening braces of the line.
NestingMaximum(lines) ==
    LET seen == {Max(0, Depth(lines, 1, idx - 1) + BraceCount(lines[idx], "{") - 1) :
                    idx \in 1..Len(lines)} \cup {0}
    IN  CHOOSE m \in seen : \A n \in seen : n <= m

_find_nesting_depth(source, file_path, rule_id, title) ==
    LET max_depth == NestingMaximum(source)
    IN  IF max_depth <= MAX_NESTING_DEPTH THEN << >>
        ELSE <<Issue(rule_id, title, "medium",
                     "Maximum block nesting depth is " \o ToString(max_depth)
                        \o "; keep it at or below " \o ToString(MAX_NESTING_DEPTH) \o ".",
                     file_path, 1, 1)>>

JavaRuleEngine_run(file) ==
    Flatten(<<GenericRuleEngine_run(file),
              Java_find_package_naming(file.text, file.path),
              _find_type_naming(file.text, file.path),
              _find_method_naming(file.text, file.path),
              _find_method_size_and_params(file.text, file.path),
              _find_nesting_depth(file.text, file.path, "SS208", "Java nesting depth too high"),
              Java_find_structural_quality_issues(file.text, file.path)>>)

\* A variant of the Go engine that puts its own issues before the generic
\* ones.
GoRuleEngine_runOwnFirst(file) ==
    Flatten(<<Go_find_package_naming(file.text, file.path),
              Go_find_function_length(file.text, file.path),
              _find_nesting_depth(file.text, file.path, "SS405", "Go nesting depth too high"),
              GenericRuleEngine_run(file)>>)

GoRuleEngine_run(file) ==
    Flatten(<<GenericRuleEngine_run(file),
              Go_find_package_naming(file.text, file.path),
              Go_find_function_length(file.text, file.path),
              _find_nesting_depth(file.text, file.path, "SS405", "Go nesting depth too high")>>)

KotlinRuleEngine_run(file) ==
    Flatten(<<GenericRuleEngine_run(file),
              Kotlin_find_package_naming(file.text, file.path),
              Kotlin_find_function_length(file.text, file.path),
              _find_nesting_depth(file.text, file.path, "SS506", "Kotlin nesting depth too high")>>)

JavaScriptRuleEngine_run(file) ==
    Flatten(<<GenericRuleEngine_run(file),
              _find_naming_issues(file.text, file.path),
              _find_function_size_and_params(file.text, file.path),
              _find_nesting_depth(file.text, file.path, "SS305",
                                  "JavaScript nesting depth too high"),
              JavaScript_find_command_execution(file.text, file.path)>>)

(***************************************************************************)
(* scanner.py: paths.  A path is the sequence of its parts; the scan root  *)
(* is resolved (absolute), a file of the tree is an entry                  *)
(*   [rel |-> its parts below the root (<< >> for a root that is a file),  *)
(*    regular |-> path.is_file(), size |-> st_size, text |-> its lines].   *)
(***************************************************************************)
GENERATED_DIR_NAMES ==
    {"target", ".mypy_cache", ".pytest_cache", ".tox", ".nox", ".ruff_cache",
     "node_modules", ".gradle", ".eggs"}

GENERATED_FILE_SUFFIXES ==
    {".pyc", ".pyo", ".class", ".jar", ".war", ".whl", ".egg-info", ".min.js", ".map"}

Range(seq) == {seq[i] : i \in 1..Len(seq)}

\* str(path) in character codes.
PathStr(parts) ==
    IF parts # << >> /\ parts[1] = "/" THEN <<47>> \o JoinParts(Tail(parts))
    ELSE JoinParts(parts)

_should_exclude(path, excludes) ==
    \E ex \in Range(excludes) : ex \in Range(path)

\* A variant of _is_generated_path that looks at the file suffixes only.
SuffixOnlyGenerated(path) ==
    \E suffix \in GENERATED_FILE_SUFFIXES :
        endswith(lower(Code[path[Len(path)]]), Code[suffix])

_is_generated_path(path) ==
    \/ \E part \in Range(path) : part \in GENERATED_DIR_NAMES
    \/ \E part \in Range(path) : endswith(Code[part], Code[".egg-info"])
    \/ \E suffix \in GENERATED_FILE_SUFFIXES :
           endswith(lower(Code[path[Len(path)]]), Code[suffix])
    \/ "target" \in Range(path) /\ "generated-sources" \in Range(path)

\* Line 71: the extensions lower-cased, a leading dot added when missing.
include_ext_set(include_extensions) ==
    {IF startswith(Code[ext], <<46>>) THEN lower(Code[ext]) ELSE <<46>> \o lower(Code[ext]) :
        ext \in Range(include_extensions)}

\* A variant of _has_allowed_target that turns away a file of exactly the
\* size of the cap.
StrictSizeTarget(entry, path, include_extensions, include_filenames, max_file_size_kb) ==
    IF ~entry.regular THEN FALSE
    ELSE IF max_file_size_kb > 0 /\ entry.size >= max_file_size_kb * 1024 THEN FALSE
    ELSE IF path[Len(path)] \in include_filenames THEN TRUE
    ELSE lower(PathSuffix(path[Len(path)])) \in include_extensions

\* _has_allowed_target when path.stat() does not raise.
_has_allowed_target(entry, path, include_extensions, include_filenames, max_file_size_kb) ==
    IF ~entry.regular THEN FALSE
    ELSE IF max_file_size_kb > 0 /\ entry.size > max_file_size_kb * 1024 THEN FALSE
    ELSE IF path[Len(path)] \in include_filenames THEN TRUE
    ELSE lower(PathSuffix(path[Len(path)])) \in include_extensions

\* path.stat() is reached (and may raise) when the path is a file and a
\* size cap is set.
StatIsCalled(entry, max_file_size_kb) == entry.regular /\ max_file_size_kb > 0

_relative_path(path, root) ==
    IF Len(root) <= Len(path) /\ SubSeq(path, 1, Len(root)) = root
    THEN SubSeq(path, Len(root) + 1, Len(path))
    ELSE path

(***************************************************************************)
(* sorted(): the stable order of a list of keys, as the sequence of the    *)
(* positions of the keys in sorted order.  Keys are sequences of integers. *)
(***************************************************************************)
\* The positions p with position i put after every position whose key is
\* not greater than keys[i].
InsertSorted(p, i, keys) ==
    LET c == Cardinality({j \in 1..Len(p) : ~SeqLess(keys[i], keys[p[j]])})
    IN  SubSeq(p, 1, c) \o <<i>> \o SubSeq(p, c + 1, Len(p))

RECURSIVE SortedPrefix(_, _)
SortedPrefix(keys, n) ==
    IF n = 0 THEN << >> ELSE InsertSorted(SortedPrefix(keys, n - 1), n, keys)

\* A variant of sorted_order that leaves the keys as they came.
unsorted_order(keys) == [i \in 1..Len(keys) |-> i]

sorted_order(keys) == SortedPrefix(keys, Len(keys))

\* sorted(names) of file or directory names.
sorted_names(names) ==
    LET p == sorted_order([i \in 1..Len(names) |-> Code[names[i]]])
    IN  [j \in 1..Len(names) |-> names[p[j]]]

(***************************************************************************)
(* os.walk(root_path, topdown=True): the files of the tree in the order    *)
(* the loop of scan_path meets them.  scandir is the order in which the    *)
(* operating system lists names (any order); the directories of a level    *)
(* are pruned and sorted, the file names sorted, and a directory's files   *)
(* come before the files of its subdirectories.                            *)
(***************************************************************************)
IsBelow(entry, dir) ==
    Len(entry.rel) > Len(dir) /\ SubSeq(entry.rel, 1, Len(dir)) = dir

Listing(names, scandir) == SelectSeq(scandir, LAMBDA n : n \in names)

RECURSIVE os_walk(_, _, _, _, _)
os_walk(tree, root, args, dir, scandir) ==
    LET below == {e \in tree : IsBelow(e, dir)}
        filenames == {e.rel[Len(dir) + 1] : e \in {f \in below : Len(f.rel) = Len(dir) + 1}}
        subdirs == {e.rel[Len(dir) + 1] : e \in {f \in below : Len(f.rel) > Len(dir) + 1}}
        keep(name) ==
            /\ ~_should_exclude(root \o dir \o <<name>>, args.excludes)
            /\ ~(args.skip_generated /\ _is_generated_path(root \o dir \o <<name>>))
        dirnames == sorted_names(SelectSeq(Listing(subdirs, scandir), keep))
        files == sorted_names(Listing(filenames, scandir))
        here == [i \in 1..Len(files) |->
                    CHOOSE e \in tree : e.rel = dir \o <<files[i]>>]
    IN  here \o Flatten([i \in 1..Len(dirnames) |->
                            os_walk(tree, root, args, dir \o <<dirnames[i]>>, scandir)])

\* Lines 77-80 and 118: the files the two loops of scan_path go through.
file_candidates(tree, root, args, scandir) ==
    IF root.is_file THEN [i \in 1..1 |-> CHOOSE e \in tree : e.rel = << >>]
    ELSE os_walk(tree, root.parts, args, << >>, scandir)

(***************************************************************************)
(* scanner.py: inline suppression.                                         *)
(* INLINE_IGNORE_PATTERN = supersonar:ignore(?:\s+([A-Za-z0-9_, -]+))?     *)
(* with re.IGNORECASE.  Group 1 is a run of characters of the class; on    *)
(* lexemes it is a sequence of atoms: a lexeme made of class characters    *)
(* only is one atom and the run goes on, a lexeme that starts with class   *)
(* characters gives the atoms of its start and ends the run, any other     *)
(* lexeme (a tab included) ends the run.  A token of the rule list is a    *)
(* sequence of atoms; it is the string "SS004" when it is <<"SS004">>.     *)
(***************************************************************************)
INLINE_IGNORE_PATTERN == {"supersonar:ignore", "SUPERSONAR:IGNORE"}

ClassWhole ==
    {" ", ",", "TODO", "fixme", "SS004", "ss004", "SS003", "reason", "package",
     "My_Pkg", "const", "home", "func", "fun", "function", "public", "void",
     "run", "App", "USER", "user", "root", "0", "app", "FROM", "node",
     "class", "def", "__init__", "pass"}

ClassPrefix ==
    "self.a = 1" :> <<"self">> @@
    "self.b = 1" :> <<"self">> @@
    "self.c = 1" :> <<"self">> @@
    "self.d = 1" :> <<"self">> @@
    "self.e = 1" :> <<"self">> @@
    "self.f = 1" :> <<"self">> @@
    "this.a = 1;" :> <<"this">> @@
    "this.b = 1;" :> <<"this">> @@
    "this.c = 1;" :> <<"this">> @@
    "this.d = 1;" :> <<"this">> @@
    "this.e = 1;" :> <<"this">> @@
    "this.f = 1;" :> <<"this">> @@
    "exec.Command(cmd)" :> <<"exec">> @@
    "InsecureSkipVerify: true" :> <<"InsecureSkipVerify">> @@
    "pickle.loads(data)" :> <<"pickle">> @@
    "requests.get(url, verify=False)" :> <<"requests">> @@
    "python:3.12" :> <<"python">> @@
    "node:latest" :> <<"node">> @@
    "x = 1" :> <<"x", " ">> @@
    "x = 1+1+...+1" :> <<"x", " ">> @@
    "password = 'hunter2!'" :> <<"password", " ">> @@
    "token: 'abcd1234'" :> <<"token">> @@
    "eval(x)" :> <<"eval">> @@
    "com.Example.Bad" :> <<"com">> @@
    "supersonar:ignore" :> <<"supersonar">> @@
    "SUPERSONAR:IGNORE" :> <<"SUPERSONAR">>

RECURSIVE ClassRun(_, _)
ClassRun(line, j) ==
    IF j > Len(line) THEN << >>
    ELSE IF line[j] \in ClassWhole THEN <<line[j]>> \o ClassRun(line, j + 1)
    ELSE IF line[j] \in DOMAIN ClassPrefix THEN ClassPrefix[line[j]]
    ELSE << >>

\* match.group(1) for the marker at position k: None ({}) or the atoms.
\* When no class character follows the whitespace, the regex gives one
\* blank of the whitespace back to the group if it can keep another.
MatchGroup1(line, k) ==
    LET e == NextNonSpace(line, k + 1) - 1
        atoms == ClassRun(line, e + 1)
    IN  IF e = k THEN {}
        ELSE IF atoms # << >> THEN {atoms}
        ELSE IF \E i \in (k + 2)..e : line[i] = " " THEN {<<" ">>}
        ELSE {}

\* rules.split(",")
RECURSIVE SplitComma(_)
SplitComma(atoms) ==
    LET commas == {i \in 1..Len(atoms) : atoms[i] = ","}
    IN  IF commas = {} THEN <<atoms>>
        ELSE LET c == CHOOSE i \in commas : \A j \in commas : i <= j
             IN  <<SubSeq(atoms, 1, c - 1)>> \o SplitComma(SubSeq(atoms, c + 1, Len(atoms)))

\* token.strip()
StripToken(token) ==
    LET ks == {k \in 1..Len(token) : token[k] # " "}
    IN  IF ks = {} THEN << >>
        ELSE SubSeq(token, CHOOSE k \in ks : \A j \in ks : k <= j,
                           CHOOSE k \in ks : \A j \in ks : j <= k)

\* A variant of UpperToken that keeps the case of a token.
SameToken(token) == token

UpperToken(token) == [i \in 1..Len(token) |-> upper(token[i])]

Wildcard == {<<"*">>}

\* Lines 241-246: the set of rules one marker suppresses.
ParsedRules(line, k) ==
    LET rules == MatchGroup1(line, k)
    IN  IF rules = {} THEN Wildcard
        ELSE LET tokens == SplitComma(CHOOSE g \in rules : TRUE)
                 parsed == {UpperToken(StripToken(tokens[i])) :
                               i \in {j \in 1..Len(tokens) : StripToken(tokens[j]) # << >>}}
             IN  IF parsed # {} THEN parsed ELSE Wildcard

\* The rule map of a file (the cache miss of _get_inline_ignore_map): a
\* function from the marked line numbers; empty when the read fails.
_get_inline_ignore_map(source, read_ok) ==
    IF ~read_ok THEN << >>
    ELSE [idx \in {i \in 1..Len(source) : Search(source[i], INLINE_IGNORE_PATTERN) > 0} |->
             ParsedRules(source[idx], Search(source[idx], INLINE_IGNORE_PATTERN))]

(***************************************************************************)
(* scanner.py: filtering and deduplication.  An optional list (None or a   *)
(* list) is the empty set or {list}.                                       *)
(***************************************************************************)
\* Line 73: set(enabled_rules) if enabled_rules else None
enabled_rule_set(enabled_rules) ==
    IF enabled_rules = {} THEN {}
    ELSE LET rules == CHOOSE l \in enabled_rules : TRUE
         IN  IF rules = << >> THEN {} ELSE {Range(rules)}

\* Line 74: set(disabled_rules or [])
disabled_rule_set(disabled_rules) ==
    IF disabled_rules = {} THEN {}
    ELSE Range(CHOOSE l \in disabled_rules : TRUE)

\* Lines 212-218: whether one issue passes the three filters.
IsAllowed(issue, enabled, disabled, inline_map) ==
    /\ issue.rule_id \notin disabled
    /\ enabled = {} \/ \A allow \in enabled : issue.rule_id \in allow
    /\ ~(/\ issue.line \in DOMAIN inline_map
         /\ \/ <<"*">> \in inline_map[issue.line]
            \/ <<issue.rule_id>> \in inline_map[issue.line])

\* inline_map is line 208's map: the file's rule map when inline_ignore is
\* set, the empty map otherwise.
_filter_issues(file_issues, normalized_file_path, enabled, disabled, inline_map) ==
    SelectSeq([i \in 1..Len(file_issues) |->
                  [file_issues[i] EXCEPT !.file_path = normalized_file_path]],
              LAMBDA issue : IsAllowed(issue, enabled, disabled, inline_map))

Fingerprint(issue) ==
    <<issue.file_path, issue.rule_id, issue.line, issue.column, issue.message>>

\* A variant of IssueSortKey that compares the column before the line.
ColumnFirstKey(issue) ==
    PathStr(issue.file_path) \o <<0, issue.column, issue.line>> \o Code[issue.rule_id]

\* The key of line 182 as one sequence of integers: the path's characters,
\* a terminator below every character, the line, the column and the rule
\* id's characters; these compare as the tuple does.
IssueSortKey(issue) ==
    PathStr(issue.file_path) \o <<0, issue.line, issue.column>> \o Code[issue.rule_id]

\* A variant of UniqueValues that keeps every issue.
AllValues(issue_list) == issue_list

\* Lines 178-181: the values of the dict, in the order the keys were first
\* inserted, each key holding the last issue written under it.
UniqueValues(issue_list) ==
    LET firsts == SelectSeq([i \in 1..Len(issue_list) |-> i],
                            LAMBDA i : \A j \in 1..(i - 1) :
                                Fingerprint(issue_list[j]) # Fingerprint(issue_list[i]))
        last(i) == CHOOSE j \in i..Len(issue_list) :
                      /\ Fingerprint(issue_list[j]) = Fingerprint(issue_list[i])
                      /\ \A m \in (j + 1)..Len(issue_list) :
                            Fingerprint(issue_list[m]) # Fingerprint(issue_list[i])
    IN  [n \in 1..Len(firsts) |-> issue_list[last(firsts[n])]]

\* A variant of _dedupe_issues that returns the values of the dict as they
\* are, without sorting them.
values_as_collected(issue_list) == UniqueValues(issue_list)

_dedupe_issues(issue_list) ==
    LET unique == UniqueValues(issue_list)
        p == sorted_order([i \in 1..Len(unique) |-> IssueSortKey(unique[i])])
    IN  [j \in 1..Len(unique) |-> unique[p[j]]]

\* A variant of ScanErrorIssue of another severity.
HighScanErrorIssue(file_path) ==
    Issue("SS900", "File scan error", "high", "Unable to read file during scan",
          file_path, 1, 1)

\* Lines 94-104 and 142-152: the synthetic issue of an unreadable file.
ScanErrorIssue(file_path) ==
    Issue("SS900", "File scan error", "medium", "Unable to read file during scan",
          file_path, 1, 1)

(***************************************************************************)
(* scan_path as a state machine.                                           *)
(*   root, tree, args   the resolved scan root, the files below it and     *)
(*                      the arguments of the call                          *)
(*   pc                 "idle" before the call, "loop" inside the loops,   *)
(*                      "done" after the return, "raised" when an          *)
(*                      exception left scan_path                           *)
(*   pending            the files the loops have still to meet             *)
(*   issues, files_scanned, inline_ignore_cache   the locals of scan_path  *)
(*   result             None ({}) or the returned ScanResult               *)
(*   scanned            history: what happened to each file dispatched     *)
(*   prev               history: the result of an earlier call             *)
(*   baseline           None ({}) or what cli.run_scan got from            *)
(*                      filter_new_issues, with the fingerprints it passed *)
(*   gate               None ({}) or what it got from evaluate_gate, with  *)
(*                      the result and the thresholds it passed            *)
(*   cli                None ({}) when cli.run_scan is not what runs, or   *)
(*                      its merged Config, its position, its local         *)
(*                      coverage, what it printed to stderr, the reports   *)
(*                      it wrote, and its exit code or exception           *)
(***************************************************************************)
VARIABLES root, tree, args, pc, pending, issues, files_scanned,
          inline_ignore_cache, result, scanned, prev, baseline, gate, cli

vars == <<root, tree, args, pc, pending, issues, files_scanned,
          inline_ignore_cache, result, scanned, prev, baseline, gate, cli>>

\* The absolute path of an entry.
AbsPath(entry) == root.parts \o entry.rel

\* Lines 83-85 and 128-132 short of the stat: the checks on the path.
PassesPathChecks(entry) ==
    /\ root.is_file \/ ~_should_exclude(AbsPath(entry), args.excludes)
    /\ ~(args.skip_generated /\ _is_generated_path(AbsPath(entry)))

Eligible(entry) ==
    /\ PassesPathChecks(entry)
    /\ _has_allowed_target(entry, AbsPath(entry), include_ext_set(args.include_extensions),
                           args.include_filenames, args.max_file_size_kb)

\* Lines 89-92 and 136-139: the engine a file is handed to.
Dispatch(path) ==
    IF lower(PathSuffix(path[Len(path)])) = Code[".py"] THEN "python" ELSE "generic"

EngineRun(engine, file) ==
    CASE engine = "python" -> PythonRuleEngine_run(file)
      [] engine = "generic" -> GenericRuleEngine_run(file)
      [] engine = "java" -> JavaRuleEngine_run(file)
      [] engine = "go" -> GoRuleEngine_run(file)
      [] engine = "kotlin" -> KotlinRuleEngine_run(file)
      [] engine = "javascript" -> JavaScriptRuleEngine_run(file)

EngineRaises(engine, file) == engine = "python" /\ PythonRuleEngine_raises(file)

\* Lines 109 and 157: the path written into the issues of a file.
NormalizedPath(entry) ==
    IF root.is_file THEN <<AbsPath(entry)[Len(AbsPath(entry))]>>
    ELSE _relative_path(AbsPath(entry), root.parts)

\* The orders in which the operating system may list the names of the tree.
ScandirOrders ==
    LET names == UNION {Range(e.rel) : e \in tree}
        n == Cardinality(names)
    IN  {p \in [1..n -> names] : \A i, j \in 1..n : p[i] = p[j] => i = j}

\* The call: lines 66-80 and the start of the walk.
Call ==
    /\ pc = "idle"
    /\ \E scandir \in ScandirOrders :
          pending' = file_candidates(tree, root, args, scandir)
    /\ pc' = "loop"
    /\ UNCHANGED <<root, tree, args, issues, files_scanned, inline_ignore_cache,
                   result, scanned, prev, baseline, gate, cli>>

\* A file that fails a check of lines 83-86 or 128-133: continue.
SkipFile ==
    /\ pc = "loop"
    /\ pending # << >>
    /\ ~Eligible(pending[1])
    /\ pending' = Tail(pending)
    /\ UNCHANGED <<root, tree, args, pc, issues, files_scanned, inline_ignore_cache,
                   result, scanned, prev, baseline, gate, cli>>

\* path.stat() raises OSError in _has_allowed_target (line 47): nothing
\* catches it, the exception leaves scan_path.
StatRaises ==
    /\ pc = "loop"
    /\ pending # << >>
    /\ PassesPathChecks(pending[1])
    /\ StatIsCalled(pending[1], args.max_file_size_kb)
    /\ pc' = "raised"
    /\ UNCHANGED <<root, tree, args, pending, issues, files_scanned,
                   inline_ignore_cache, result, scanned, prev, baseline, gate, cli>>

\* Line 208 for a file: the rule map and the cache after it.  map_read_ok
\* is whether the read of line 232 succeeds.
InlineMap(entry, map_read_ok) ==
    IF ~args.inline_ignore THEN << >>
    ELSE IF AbsPath(entry) \in DOMAIN inline_ignore_cache
    THEN inline_ignore_cache[AbsPath(entry)]
    ELSE _get_inline_ignore_map(entry.text, map_read_ok)

CacheAfter(entry, map_read_ok) ==
    IF ~args.inline_ignore \/ AbsPath(entry) \in DOMAIN inline_ignore_cache
    THEN inline_ignore_cache
    ELSE (AbsPath(entry) :> _get_inline_ignore_map(entry.text, map_read_ok))
         @@ inline_ignore_cache

MapReadOutcomes == IF args.inline_ignore THEN BOOLEAN ELSE {TRUE}

\* An eligible file whose engine returns: lines 87-92, 107-116 and
\* 134-139, 155-164.
ScanFile ==
    /\ pc = "loop"
    /\ pending # << >>
    /\ Eligible(pending[1])
    /\ LET entry == pending[1]
           engine == Dispatch(AbsPath(entry))
           file == [path |-> AbsPath(entry), text |-> entry.text]
       IN  /\ ~EngineRaises(engine, file)
           /\ \E map_read_ok \in MapReadOutcomes, file_issues \in {EngineRun(engine, file)} :
                 \E filtered \in {_filter_issues(file_issues, NormalizedPath(entry),
                                                 enabled_rule_set(args.enabled_rules),
                                                 disabled_rule_set(args.disabled_rules),
                                                 InlineMap(entry, map_read_ok))} :
                     /\ issues' = issues \o filtered
                     /\ inline_ignore_cache' = CacheAfter(entry, map_read_ok)
                     /\ scanned' = Append(scanned,
                            [entry |-> entry, engine |-> engine, outcome |-> "returned",
                             map_read_ok |-> map_read_ok,
                             file_issues |-> file_issues, filtered |-> filtered])
    /\ files_scanned' = files_scanned + 1
    /\ pending' = Tail(pending)
    /\ UNCHANGED <<root, tree, args, pc, result, prev, baseline, gate, cli>>

\* An eligible file whose read raises OSError inside the engine: lines
\* 93-105 (then the filter of an empty list) and 140-153 (continue).
ScanFileOSError ==
    /\ pc = "loop"
    /\ pending # << >>
    /\ Eligible(pending[1])
    /\ LET entry == pending[1]
       IN  /\ issues' = Append(issues, ScanErrorIssue(NormalizedPath(entry)))
           /\ \E map_read_ok \in (IF root.is_file THEN MapReadOutcomes ELSE {FALSE}) :
                 /\ inline_ignore_cache' =
                        IF root.is_file THEN CacheAfter(entry, map_read_ok)
                        ELSE inline_ignore_cache
                 /\ scanned' = Append(scanned,
                        [entry |-> entry, engine |-> Dispatch(AbsPath(entry)),
                         outcome |-> "OSError", map_read_ok |-> map_read_ok,
                         file_issues |-> << >>, filtered |-> << >>])
    /\ files_scanned' = files_scanned + 1
    /\ pending' = Tail(pending)
    /\ UNCHANGED <<root, tree, args, pc, result, prev, baseline, gate, cli>>

\* An eligible file whose engine raises an exception that is no OSError:
\* the except clauses of lines 93 and 140 do not catch it.
EngineFails ==
    /\ pc = "loop"
    /\ pending # << >>
    /\ Eligible(pending[1])
    /\ EngineRaises(Dispatch(AbsPath(pending[1])),
                    [path |-> AbsPath(pending[1]), text |-> pending[1].text])
    /\ files_scanned' = files_scanned + 1
    /\ pc' = "raised"
    /\ UNCHANGED <<root, tree, args, pending, issues, inline_ignore_cache, result,
                   scanned, prev, baseline, gate, cli>>

\* Lines 166-167.
Return ==
    /\ pc = "loop"
    /\ pending = << >>
    /\ result' = {ScanResult(_dedupe_issues(issues), files_scanned, args.coverage)}
    /\ pc' = "done"
    /\ UNCHANGED <<root, tree, args, pending, issues, files_scanned,
                   inline_ignore_cache, scanned, prev, baseline, gate, cli>>

Next ==
    \/ Call
    \/ SkipFile
    \/ StatRaises
    \/ ScanFile
    \/ ScanFileOSError
    \/ EngineFails
    \/ Return

(***************************************************************************)
(* Initial states: a root, a tree and the arguments of a call.             *)
(***************************************************************************)
\* The size in bytes of a text of ASCII lines, each ended by a newline.
RECURSIVE TextSize(_)
TextSize(text) ==
    IF text = << >> THEN 0 ELSE LineLen(Head(text)) + 1 + TextSize(Tail(text))

Entry(rel, text) ==
    [rel |-> rel, regular |-> TRUE, size |-> TextSize(text), text |-> text]

\* The texts of at most MaxLines lines drawn from a set of lines.
Texts(lines) == UNION {[1..n -> lines] : n \in 0..MaxLines}

DirRoot == [parts |-> <<"/", "work", "proj">>, is_file |-> FALSE]
FileRoot(name) == [parts |-> <<"/", "work", "proj", name>>, is_file |-> TRUE]

DefaultArgs ==
    [excludes |-> << >>,
     include_extensions |-> <<".py", ".java", ".kt", ".jsx", ".go", "txt">>,
     include_filenames |-> {"Dockerfile"},
     max_file_size_kb |-> 8,
     coverage |-> {},
     skip_generated |-> TRUE,
     enabled_rules |-> {},
     disabled_rules |-> {},
     inline_ignore |-> TRUE]

\* The state on entry to scan_path.
Entered(r, t, a) ==
    /\ root = r
    /\ tree = t
    /\ args = a
    /\ pc = "idle"
    /\ pending = << >>
    /\ issues = << >>
    /\ files_scanned = 0
    /\ inline_ignore_cache = << >>
    /\ result = {}
    /\ scanned = << >>
    /\ prev = {}
    /\ baseline = {}
    /\ gate = {}
    /\ cli = {}

\* A tree every initial-state family contains: a file that is skipped, a
\* special file, and a Python file whose AST is too deep.
CoreTree ==
    {Entry(<<"README">>, << >>),
     [Entry(<<"pipe.py">>, << >>) EXCEPT !.regular = FALSE],
     Entry(<<"a.py">>, <<<<"x = 1+1+...+1">>>>)}

InitCore == Entered(DirRoot, CoreTree, DefaultArgs)

\* The trees of one file, under a directory root and as the root itself.
OneFileStates(names, lines, argset) ==
    \E name \in names, text \in Texts(lines), a \in argset :
        \/ Entered(DirRoot, {Entry(<<name>>, text)}, a)
        \/ Entered(FileRoot(name), {Entry(<< >>, text)}, a)

\* Calls that differ in their rule lists (None, an empty list, lists).
RulesLines == {<<"#", " ", "TODO">>, <<"password = 'hunter2!'">>}

RuleLists == {{}, {<< >>}, {<<"SS004">>}, {<<"SS003", "SS900">>}}

InitRules ==
    \/ InitCore
    \/ OneFileStates({"a.py", "c.txt"}, RulesLines,
                     {[DefaultArgs EXCEPT !.enabled_rules = en, !.disabled_rules = dis] :
                         en \in RuleLists, dis \in RuleLists})

\* Files whose lines bear inline markers of every shape.
InlineLines ==
    {<<"password = 'hunter2!'">>,
     <<"password = 'hunter2!'", " ", "#", " ", "supersonar:ignore">>,
     <<"password = 'hunter2!'", " ", "#", " ", "supersonar:ignore", " ", "SS003">>,
     <<"password = 'hunter2!'", " ", "#", " ", "SUPERSONAR:IGNORE", " ", "ss004">>,
     <<"#", " ", "TODO", " ", "SUPERSONAR:IGNORE", " ", "ss004">>,
     <<"#", " ", "TODO", " ", "supersonar:ignore", " ", "SS003", ",", " ", "SS004">>,
     <<"password = 'hunter2!'", " ", "#", " ", "supersonar:ignore", " ", ",">>,
     <<"password = 'hunter2!'", " ", "#", " ", "supersonar:ignore", " ", "SS003", " ", "reason">>,
     <<"password = 'hunter2!'", " ", "#", " ", "supersonar:ignore", "\t", "SS003">>,
     <<"password = 'hunter2!'", " ", "#", "supersonar:ignore", ",", "SS003">>}

InitInline ==
    \/ InitCore
    \/ OneFileStates({"a.py", "c.txt"}, InlineLines,
                     {[DefaultArgs EXCEPT !.inline_ignore = b] : b \in BOOLEAN})

\* Trees of several files of every language.
ScanPaths ==
    {<<"a.py">>, <<"App.java">>, <<"App.kt">>, <<"App.jsx">>, <<"main.go">>,
     <<"c.txt">>, <<"a", "z.py">>, <<"README">>}

SampleTexts(name) ==
    CASE name \in {"a.py", "z.py"} ->
             {<<<<"eval(x)">>>>, <<<<"x = 1+1+...+1">>>>, <<<<"#", " ", "TODO">>, <<"eval(x)">>>>}
      [] name \in {"App.java", "App.kt"} -> {<<<<"package", " ", "com.Example.Bad", ";">>>>}
      [] name = "main.go" -> {<<<<"package", " ", "My_Pkg">>>>}
      [] name = "App.jsx" -> {<<<<"const", " ", "home", " ", "= () => <div>Home</div>;">>>>}
      [] OTHER -> {<<<<"#", " ", "TODO">>>>}

ScanEntries ==
    UNION {{Entry(rel, text) : text \in SampleTexts(rel[Len(rel)])} : rel \in ScanPaths}

\* The trees of at most n files, no two at the same path.
RECURSIVE TreesUpTo(_)
TreesUpTo(n) ==
    IF n = 0 THEN {{}}
    ELSE LET smaller == TreesUpTo(n - 1)
         IN  smaller \cup
             UNION {{t \cup {e} : e \in {f \in ScanEntries : \A g \in t : g.rel # f.rel}} :
                       t \in smaller}

ScanTrees == TreesUpTo(MaxFiles) \ {{}}

ScanArgs ==
    {DefaultArgs,
     [DefaultArgs EXCEPT !.enabled_rules = {<<"SS004">>}],
     [DefaultArgs EXCEPT !.excludes = <<"a">>, !.max_file_size_kb = 0]}

Init ==
    \/ InitCore
    \/ \E t \in ScanTrees, a \in ScanArgs : Entered(DirRoot, t, a)
    \/ OneFileStates({"a.py", "App.java"}, {<<"eval(x)">>}, {DefaultArgs})

Spec == Init /\ [][Next]_vars

SpecRules == InitRules /\ [][Next]_vars

SpecInline == InitInline /\ [][Next]_vars

(***************************************************************************)
(* Two calls in a row on the same tree with the same arguments.            *)
(***************************************************************************)
\* What the environment did to each file of a call.
Outcomes == {<<scanned[i].entry.rel, scanned[i].outcome, scanned[i].map_read_ok>> :
                i \in 1..Len(scanned)}

\* The second call: lines 66-80 again, the operating system free to list
\* the names in another order.
CallAgain ==
    /\ pc = "done"
    /\ prev = {}
    /\ prev' = {[result |-> CHOOSE r \in result : TRUE, outcomes |-> Outcomes]}
    /\ \E scandir \in ScandirOrders :
          pending' = file_candidates(tree, root, args, scandir)
    /\ pc' = "loop"
    /\ issues' = << >>
    /\ files_scanned' = 0
    /\ inline_ignore_cache' = << >>
    /\ result' = {}
    /\ scanned' = << >>
    /\ UNCHANGED <<root, tree, args, baseline, gate, cli>>

NextTwice == Next \/ CallAgain

SpecTwice == Init /\ [][NextTwice]_vars

(***************************************************************************)
(* The deduplication stage alone, fed any issues.                          *)
(***************************************************************************)
IssueUniverse ==
    {Issue(r, "t", sev, "m", fp, lc[1], lc[2]) :
        r \in {"SS003", "SS004"}, sev \in {"low", "high"},
        fp \in {<<"a.py">>, <<"a", "z.py">>}, lc \in {<<1, 2>>, <<2, 1>>}}

InitDedupe ==
    /\ root = DirRoot
    /\ tree = {}
    /\ args = DefaultArgs
    /\ pc = "loop"
    /\ pending = << >>
    /\ issues = << >>
    /\ files_scanned = 0
    /\ inline_ignore_cache = << >>
    /\ result = {}
    /\ scanned = << >>
    /\ prev = {}
    /\ baseline = {}
    /\ gate = {}
    /\ cli = {}

\* issues.extend(filtered) of lines 116 and 164, for any issue.
ExtendIssues ==
    /\ pc = "loop"
    /\ Len(issues) < MaxIssues
    /\ \E issue \in IssueUniverse : issues' = Append(issues, issue)
    /\ UNCHANGED <<root, tree, args, pc, pending, files_scanned, inline_ignore_cache,
                   result, scanned, prev, baseline, gate, cli>>

NextDedupe == ExtendIssues \/ Return

SpecDedupe == InitDedupe /\ [][NextDedupe]_vars

(***************************************************************************)
(* Every engine run on every file, and the orchestrator's own issue.       *)
(***************************************************************************)
EngineLines ==
    {<<"x = 1">>, <<"x = 1", " ">>, <<" ">>, <<"#", " ", "TODO">>, <<"\t", "#", " ", "fixme">>,
     <<"password = 'hunter2!'">>, <<" ", "token: 'abcd1234'">>, <<"eval(x)">>,
     <<"x = 1", " ", "eval(x)">>, <<"<<<<<<< HEAD">>, <<"NUL">>,
     <<"x = 1+1+...+1">>,
     <<"package", " ", "com.Example.Bad", ";">>, <<"package", " ", "My_Pkg">>,
     <<" ", "const", " ", "home", " ", "= () => <div>Home</div>;">>}

InitEngines ==
    \E name \in {"a.py", "App.java", "c.txt"}, text \in Texts(EngineLines) :
        Entered(DirRoot, {Entry(<<name>>, text)}, [DefaultArgs EXCEPT !.max_file_size_kb = 0])

\* engine.run(file_path) on the next file, its issues collected unfiltered.
RunEngine(engine) ==
    /\ pc = "loop"
    /\ pending # << >>
    /\ LET entry == pending[1]
           file == [path |-> AbsPath(entry), text |-> entry.text]
       IN  /\ ~EngineRaises(engine, file)
           /\ \E file_issues \in {EngineRun(engine, file)} :
                 /\ issues' = issues \o file_issues
                 /\ scanned' = Append(scanned,
                        [entry |-> entry, engine |-> engine, outcome |-> "returned",
                         map_read_ok |-> TRUE, file_issues |-> file_issues,
                         filtered |-> file_issues])
    /\ pending' = Tail(pending)
    /\ UNCHANGED <<root, tree, args, pc, files_scanned, inline_ignore_cache,
                   result, prev, baseline, gate, cli>>

RunPython == RunEngine("python")
RunGeneric == RunEngine("generic")
RunJava == RunEngine("java")
RunGo == RunEngine("go")
RunKotlin == RunEngine("kotlin")
RunJavaScript == RunEngine("javascript")

NextEngines ==
    \/ Call
    \/ RunPython
    \/ RunGeneric
    \/ RunJava
    \/ RunGo
    \/ RunKotlin
    \/ RunJavaScript
    \/ ScanFileOSError

SpecEngines == InitEngines /\ [][NextEngines]_vars

(***************************************************************************)
(* Walks of trees with excluded and generated directories, files of every  *)
(* kind of name, and files at the size cap.                                *)
(***************************************************************************)
WalkPaths ==
    {<<"a.py">>, <<"B.PY">>, <<"c.txt">>, <<"x.pyc">>, <<"Dockerfile">>, <<".env">>,
     <<"notes.">>, <<"README">>, <<"venv", "a.py">>, <<"src", "venv", "a.py">>,
     <<"src", "a.py">>, <<"target", "a.py">>, <<"node_modules", "a.py">>,
     <<"lib.egg-info", "a.py">>, <<"src", "generated-sources", "a.py">>}

\* A comment of 1023 characters makes a file of exactly 1024 bytes, one
\* more blank a file of 1025 bytes.
WalkTexts(rel) ==
    IF rel \in {<<"a.py">>, <<"c.txt">>}
    THEN {<<<<"#", " ", "TODO">>>>, <<<<"#", "pad1022">>>>, <<<<"#", " ", "pad1022">>>>}
    ELSE {<<<<"#", " ", "TODO">>>>}

WalkEntries == UNION {{Entry(rel, text) : text \in WalkTexts(rel)} : rel \in WalkPaths}

\* The trees of at most n files of WalkEntries, no two at the same path.
RECURSIVE WalkTreesUpTo(_)
WalkTreesUpTo(n) ==
    IF n = 0 THEN {{}}
    ELSE LET smaller == WalkTreesUpTo(n - 1)
         IN  smaller \cup
             UNION {{t \cup {e} : e \in {f \in WalkEntries : \A g \in t : g.rel # f.rel}} :
                       t \in smaller}

WalkArgs ==
    {[DefaultArgs EXCEPT !.excludes = ex, !.skip_generated = sg,
                         !.max_file_size_kb = cap[1], !.include_extensions = cap[2]] :
        ex \in {<< >>, <<"venv">>, <<"proj">>, <<"a.py">>},
        sg \in BOOLEAN,
        cap \in {<<0, <<".py", "txt">>>>, <<1, <<".PY", "txt">>>>, <<-1, <<".py">>>>}}

InitWalk ==
    \/ InitCore
    \/ \E t \in WalkTreesUpTo(MaxFiles) \ {{}}, a \in WalkArgs : Entered(DirRoot, t, a)
    \/ OneFileStates({"a.py", "x.pyc"}, {<<"#", " ", "TODO">>}, WalkArgs)

SpecWalk == InitWalk /\ [][Next]_vars

(***************************************************************************)
(* security.py, and scan_path called as cli.run_scan calls it in           *)
(* security-only mode.                                                     *)
(***************************************************************************)
SECURITY_RULE_IDS ==
    {"SS001", "SS003", "SS005", "SS006", "SS007", "SS008", "SS009", "SS101", "SS102",
     "SS107", "SS108", "SS109", "SS110", "SS111", "SS112", "SS113", "SS114", "SS221",
     "SS306", "SS407", "SS408", "SS507"}

\* sorted(a set of names)
RECURSIVE SortedSeqOf(_)
SortedSeqOf(S) ==
    IF S = {} THEN << >>
    ELSE LET m == CHOOSE x \in S : \A y \in S \ {x} : SeqLess(Code[x], Code[y])
         IN  <<m>> \o SortedSeqOf(S \ {m})

\* list(dict.fromkeys(rules)): the first occurrence of each rule, in order.
FromKeys(rules) ==
    SelectSeq([i \in 1..Len(rules) |-> IF \E j \in 1..(i - 1) : rules[j] = rules[i]
                                       THEN "" ELSE rules[i]],
              LAMBDA rule : rule # "")

\* enabled_rules is None ({}) or a list ({list}).
resolve_enabled_rules(enabled_rules, security_only) ==
    IF ~security_only THEN enabled_rules
    ELSE IF enabled_rules = {} THEN {SortedSeqOf(SECURITY_RULE_IDS)}
    ELSE {FromKeys(SelectSeq(CHOOSE l \in enabled_rules : TRUE,
                             LAMBDA rule : rule \in SECURITY_RULE_IDS))}

ConfiguredRules == {{}, {<<"SS004", "SS001", "SS001">>}, {<<"SS004">>}, {<< >>}}

SecurityArgs ==
    {[DefaultArgs EXCEPT !.enabled_rules = resolve_enabled_rules(configured, TRUE)] :
        configured \in ConfiguredRules}

InitSecurity ==
    \/ \E a \in SecurityArgs : Entered(DirRoot, CoreTree, a)
    \/ OneFileStates({"a.py", "c.txt"},
                     {<<"#", " ", "TODO">>, <<"eval(x)">>, <<"password = 'hunter2!'">>},
                     SecurityArgs)

SpecSecurity == InitSecurity /\ [][Next]_vars

(***************************************************************************)
(* quality_gate.py and baseline.py, run on a ScanResult as cli.run_scan    *)
(* runs them (lines 101-123).  A threshold is None ({}) or {value}; a      *)
(* coverage percentage is kept in thousandths of a percent, so that        *)
(* line_rate * 100.0 of a line_rate in thousandths is an integer.  A       *)
(* reason is kept as the threshold it names and the two values of its      *)
(* text.                                                                   *)
(***************************************************************************)
\* A variant of SEVERITY_ORDER with low and high swapped.
SwappedSeverityOrder ==
    "low" :> 3 @@ "medium" :> 2 @@ "high" :> 1 @@ "critical" :> 4

SEVERITY_ORDER ==
    "low" :> 1 @@ "medium" :> 2 @@ "high" :> 3 @@ "critical" :> 4

Reason(threshold, value, limit) == [threshold |-> threshold, value |-> value, limit |-> limit]

\* Counter(issue.severity for issue in result.issues)[severity]
severity_counts(issue_list, severity) ==
    Cardinality({i \in 1..Len(issue_list) : issue_list[i].severity = severity})

evaluate_gate(scan_result, fail_on, max_issues, max_low, max_medium, max_high, max_critical, min_coverage) ==
    LET count == Len(scan_result.issues)
        per_severity_limits ==
            <<<<"low", max_low>>, <<"medium", max_medium>>, <<"high", max_high>>,
              <<"critical", max_critical>>>>
        on_severity ==
            IF \E t \in fail_on : \E i \in 1..count :
                   SEVERITY_ORDER[scan_result.issues[i].severity] >= SEVERITY_ORDER[t]
            THEN <<Reason("fail_on", 0, 0)>> ELSE << >>
        on_count ==
            IF \E m \in max_issues : count > m
            THEN <<Reason("max_issues", count, CHOOSE m \in max_issues : TRUE)>> ELSE << >>
        on_limit(n) ==
            LET severity == per_severity_limits[n][1]
                limit == per_severity_limits[n][2]
            IN  IF \E l \in limit : severity_counts(scan_result.issues, severity) > l
                THEN <<Reason(severity, severity_counts(scan_result.issues, severity),
                              CHOOSE l \in limit : TRUE)>>
                ELSE << >>
        on_coverage ==
            IF min_coverage = {} THEN << >>
            ELSE IF scan_result.coverage = {} THEN <<Reason("no coverage data", 0, 0)>>
            ELSE LET coverage_percent == (CHOOSE c \in scan_result.coverage : TRUE) * 100
                     minimum == CHOOSE m \in min_coverage : TRUE
                 IN  IF coverage_percent < minimum
                     THEN <<Reason("min_coverage", coverage_percent, minimum)>> ELSE << >>
        failed_reasons ==
            on_severity \o on_count \o on_limit(1) \o on_limit(2) \o on_limit(3)
            \o on_limit(4) \o on_coverage
    IN  [passed |-> Len(failed_reasons) = 0, reasons |-> failed_reasons]

\* A variant of filter_new_issues that tells an issue by its file and rule.
filter_by_file_and_rule(scan_result, baseline_fingerprints) ==
    LET known == {<<f[1], f[2]>> : f \in baseline_fingerprints}
        new_issues == SelectSeq(scan_result.issues,
                                LAMBDA issue : <<issue.file_path, issue.rule_id>> \notin known)
    IN  [new_result |-> ScanResult(new_issues, scan_result.files_scanned, scan_result.coverage),
         baseline_matched |-> Len(scan_result.issues) - Len(new_issues)]

filter_new_issues(scan_result, baseline_fingerprints) ==
    LET new_issues == SelectSeq(scan_result.issues,
                                LAMBDA issue : Fingerprint(issue) \notin baseline_fingerprints)
    IN  [new_result |-> ScanResult(new_issues, scan_result.files_scanned, scan_result.coverage),
         baseline_matched |-> Len(scan_result.issues) - Len(new_issues)]

\* The issues of the results handed to the two stages.
GateIssues ==
    {Issue("SS004", "t", "low", "m", <<"a.py">>, 1, 3),
     Issue("SS000", "t", "medium", "m", <<"a.py">>, 1, 1),
     Issue("SS003", "t", "high", "m", <<"a.py">>, 1, 1),
     Issue("SS003", "t", "high", "m", <<"a.py">>, 2, 1),
     Issue("SS001", "t", "critical", "m", <<"a.py">>, 2, 1)}

\* The baselines of a report: none of its issues, its first issue, its
\* issues at line 1, an issue at another column.
Baselines(scan_result) ==
    {{},
     {Fingerprint(scan_result.issues[i]) : i \in 1..Len(scan_result.issues) \cap {1}},
     {Fingerprint(scan_result.issues[i]) :
         i \in {j \in 1..Len(scan_result.issues) : scan_result.issues[j].line = 1}},
     {<<<<"a.py">>, "SS003", 2, 2, "m">>}}

Thresholds ==
    {[fail_on |-> fail_on, max_issues |-> max_issues, max_low |-> lower_limits[1],
      max_medium |-> lower_limits[2], max_high |-> upper_limits[1],
      max_critical |-> upper_limits[2], min_coverage |-> min_coverage] :
        fail_on \in {{}, {"medium"}, {"critical"}},
        max_issues \in {{}, {1}},
        lower_limits \in {<<{}, {}>>, <<{0}, {}>>, <<{}, {0}>>},
        upper_limits \in {<<{}, {}>>, <<{1}, {}>>, <<{}, {0}>>},
        min_coverage \in {{}, {70000}}}

\* cli.run_scan lines 102-104.
FilterNewIssues ==
    /\ pc = "done"
    /\ baseline = {}
    /\ gate = {}
    /\ \E r \in result : \E fingerprints \in Baselines(r) :
          baseline' = {[fingerprints |-> fingerprints, given |-> r,
                        returned |-> filter_new_issues(r, fingerprints)]}
    /\ UNCHANGED <<root, tree, args, pc, pending, issues, files_scanned,
                   inline_ignore_cache, result, scanned, prev, gate, cli>>

\* cli.run_scan lines 101, 110-123: the gate on the result, or on the new
\* issues when only_new_issues is set.
EvaluateGate ==
    /\ pc = "done"
    /\ gate = {}
    /\ \E r \in result : \E t \in Thresholds :
          LET gate_result == IF baseline = {} THEN r
                             ELSE (CHOOSE b \in baseline : TRUE).returned.new_result
          IN  gate' = {[thresholds |-> t, gate_result |-> gate_result,
                        returned |-> evaluate_gate(gate_result, t.fail_on, t.max_issues,
                                                   t.max_low, t.max_medium, t.max_high,
                                                   t.max_critical, t.min_coverage)]}
    /\ UNCHANGED <<root, tree, args, pc, pending, issues, files_scanned,
                   inline_ignore_cache, result, scanned, prev, baseline, cli>>

\* The state after scan_path returned a report of some issues.
InitGate ==
    \E coverage \in {{}, {690}, {700}} :
    \E n \in 0..MaxIssues : \E found \in [1..n -> GateIssues] :
        /\ root = DirRoot
        /\ tree = {}
        /\ args = [DefaultArgs EXCEPT !.coverage = coverage]
        /\ pc = "done"
        /\ pending = << >>
        /\ issues = found
        /\ files_scanned = 2
        /\ inline_ignore_cache = << >>
        /\ result = {ScanResult(_dedupe_issues(found), 2, coverage)}
        /\ scanned = << >>
        /\ prev = {}
        /\ baseline = {}
        /\ gate = {}
        /\ cli = {}

NextGate == FilterNewIssues \/ EvaluateGate

SpecGate == InitGate /\ [][NextGate]_vars

(***************************************************************************)
(* The engines on files long enough to repeat blocks of lines.             *)
(***************************************************************************)
MaxBlockLines == 26

\* The first n lines of a pattern of lines repeated over and over.
Periodic(pattern, n) == [i \in 1..n |-> pattern[((i - 1) % Len(pattern)) + 1]]

\* Lines of 21 characters (with and without whitespace to normalize), of
\* 17 and of 5 characters, and an empty line.
BlockPatterns ==
    LET long == <<"password = 'hunter2!'">>
        spaced == <<" ", "password = 'hunter2!'", "\t", " ">>
        mid == <<"token: 'abcd1234'">>
        short == <<"x = 1">>
        two == <<"x = 1", " ", "\t", "password = 'hunter2!'">>
    IN  {<<long>>, <<long, spaced>>, <<long, mid>>, <<long, long, long, mid>>,
         <<long, long, long, long, << >>>>, <<long, long, long, long, short>>,
         <<long, two, long, long, long, two, two, long, long, long, long>>,
         <<long, long, long, long, two, two, two, two, mid>>}

InitBlocks ==
    \E pattern \in BlockPatterns, n \in 0..MaxBlockLines, name \in {"c.txt", "App.java"} :
        Entered(DirRoot, {Entry(<<name>>, Periodic(pattern, n))},
                [DefaultArgs EXCEPT !.max_file_size_kb = 0])

SpecBlocks == InitBlocks /\ [][NextEngines]_vars

(***************************************************************************)
(* The bracket-language engines on files with functions of about 60 lines: *)
(* alone, after a one-line function, inside a block, with a block or an    *)
(* "} {" line inside, with a second function inside, and left open.        *)
(***************************************************************************)
MaxBodyLines == 60

FunctionHeaders ==
    {<<"func", " ", "run", "()", " ", "{">>,
     <<"fun", " ", "run", "()", " ", "{">>,
     <<"function", " ", "run", "()", " ", "{">>,
     <<"const", " ", "home", " ", "= () =>", " ", "{">>,
     <<" ", "public", " ", "void", " ", "run", "()", " ", "{">>,
     <<"public", " ", "void", " ", "run", "()", " ", "{">>,
     <<"\t", "\t", "void", " ", "run", "()", "{">>,
     <<"void", " ", "run", "()", " ", "{">>,
     <<" ", "public", " ", "App", "()", " ", "{">>,
     <<"func", " ", "run", "()">>}

FunctionTexts(header, k) ==
    LET body == Periodic(<<<<" ", "x = 1">>>>, k)
        close == <<"}">>
        one_line == IF header[Len(header)] = "{"
                    THEN SubSeq(header, 1, Len(header) - 1) \o <<"{}">>
                    ELSE header
    IN  {<<header>> \o body \o <<close>>,
         <<one_line, header>> \o body \o <<close>>,
         <<<<"{">>, header>> \o body \o <<close, close>>,
         <<header, <<" ", "{">>>> \o body \o <<<<"}", " ", "{">>, <<" ", "}">>, close>>,
         <<header, header>> \o body \o <<close, close>>,
         <<header>> \o body}

InitLength ==
    \E header \in FunctionHeaders, k \in (MaxBodyLines - 5)..MaxBodyLines,
       name \in {"App.java", "main.go"} :
        \E text \in FunctionTexts(header, k) :
            Entered(DirRoot, {Entry(<<name>>, text)},
                    [DefaultArgs EXCEPT !.max_file_size_kb = 0])

NextBrackets ==
    \/ Call
    \/ RunJava
    \/ RunGo
    \/ RunKotlin
    \/ RunJavaScript
    \/ ScanFileOSError

SpecLength == InitLength /\ [][NextBrackets]_vars

(***************************************************************************)
(* The generic engine on Dockerfiles: USER lines with a blank or a tab     *)
(* after the keyword, with root, 0 and other values, in a comment, FROM    *)
(* lines and empty lines.                                                  *)
(***************************************************************************)
MaxDockerLines == 2

DockerLines ==
    {<<"FROM", " ", "node">>, <<"FROM", " ", "node:latest">>, <<"FROM", " ", "python:3.12">>,
     <<"USER", " ", "root">>, <<"user", " ", "0">>, <<" ", "USER", " ", " ", "root", " ">>,
     <<"USER", " ", "app">>, <<"USER", " ", "root", " ", "app">>,
     <<"USER", "\t", "app">>, <<"USER", "\t", "root">>,
     <<"#", " ", "USER", " ", "root">>, << >>}

DockerTexts(n) == UNION {[1..k -> DockerLines] : k \in 0..n}

InitDocker ==
    \E name \in {"Dockerfile", "App.Dockerfile", "c.txt"}, text \in DockerTexts(MaxDockerLines) :
        Entered(DirRoot, {Entry(<<name>>, text)},
                [DefaultArgs EXCEPT !.max_file_size_kb = 0,
                                    !.include_extensions = <<"txt", ".dockerfile">>])

NextGeneric ==
    \/ Call
    \/ RunGeneric
    \/ ScanFileOSError

SpecDocker == InitDocker /\ [][NextGeneric]_vars

(***************************************************************************)
(* The Go and the Python engine on files that call exec.Command, skip the  *)
(* TLS verification, load a pickle, or call requests with verify=False.    *)
(***************************************************************************)
SmellLines ==
    {<<"\t", "exec.Command(cmd)">>, <<"\t", "InsecureSkipVerify: true">>,
     <<"pickle.loads(data)">>, <<"requests.get(url, verify=False)">>,
     <<"x = 1">>, <<"eval(x)">>, <<"package", " ", "My_Pkg">>,
     <<"func", " ", "run", "()", " ", "{}">>}

InitSmells ==
    \E name \in {"a.py", "main.go"}, text \in Texts(SmellLines) :
        Entered(DirRoot, {Entry(<<name>>, text)}, [DefaultArgs EXCEPT !.max_file_size_kb = 0])

NextSmells ==
    \/ Call
    \/ RunPython
    \/ RunGo
    \/ ScanFileOSError

SpecSmells == InitSmells /\ [][NextSmells]_vars

(***************************************************************************)
(* The bracket-language engines on files of braces: lines that open five   *)
(* or six blocks, lines that close them, and lines that close one block    *)
(* and open the next.                                                      *)
(***************************************************************************)
NestLines ==
    {<<"{">>, <<"}">>, <<"}", " ", "{">>, <<"{}">>, <<"x = 1">>,
     <<"{", "{", "{", "{", "{">>, <<"{", "{", "{", "{", "{", "{">>,
     <<"}", "}", "}", "}", "}">>, <<"func", " ", "run", "()", " ", "{">>}

InitNesting ==
    \E name \in {"App.java", "main.go"}, text \in Texts(NestLines) :
        Entered(DirRoot, {Entry(<<name>>, text)}, [DefaultArgs EXCEPT !.max_file_size_kb = 0])

SpecNesting == InitNesting /\ [][NextBrackets]_vars

(***************************************************************************)
(* The JavaScript engine on files that bind and call child_process exec    *)
(* and execSync in each of the ways the engine knows, in comments, after a *)
(* string with "//" in it, and on the line of the binding.                 *)
(***************************************************************************)
MaxJsLines == 2

JsLines ==
    {<<"const { exec } = require('child_process');">>,
     <<"const { exec: run } = require('child_process');">>,
     <<"const { spawn } = require('child_process');">>,
     <<"import { execSync as run } from 'child_process';">>,
     <<"const cp = require('child_process');">>,
     <<"import * as cp from 'child_process';">>,
     <<"import cp from 'child_process';">>,
     <<"require('child_process').exec(cmd);">>,
     <<"const out = require('child_process').execSync(cmd);">>,
     <<"exec(cmd);">>, <<"run(cmd);">>, <<"spawn(cmd);">>,
     <<"cp.exec(cmd);">>, <<" ", "cp.execSync(cmd);">>, <<"child_process.exec(cmd);">>,
     <<"//", " ", "cp.exec(cmd);">>, <<"exec(cmd);", " ", "//", " ", "TODO">>,
     <<"const u = 'a//b';", " ", "cp.exec(cmd);">>,
     <<"const cp = require('child_process');", " ", "cp.exec(cmd);">>}

InitJs ==
    \E text \in UNION {[1..n -> JsLines] : n \in 0..MaxJsLines} :
        Entered(DirRoot, {Entry(<<"App.jsx">>, text)}, [DefaultArgs EXCEPT !.max_file_size_kb = 0])

NextJs ==
    \/ Call
    \/ RunJavaScript
    \/ ScanFileOSError

SpecJs == InitJs /\ [][NextJs]_vars

(***************************************************************************)
(* The Python and the Java engine on files with one class of up to         *)
(* MaxMethods methods, each of which refers to one of six sets of fields;  *)
(* one of the methods may be the constructor.  A Python file is given to   *)
(* the Python engine and a Java file to the Java engine.                   *)
(***************************************************************************)
MaxMethods == 5

FieldOrder == <<"a", "b", "c", "d", "e", "f">>

FieldSets == <<{}, {"a"}, {"b"}, {"a", "c"}, {"c", "d"}, {"c", "e"}>>

MethodNames == <<"run", "home", "app", "root", "node", "user">>

\* The choices of field sets for the methods of a class, in the order of
\* FieldSets.
MethodChoices ==
    UNION {{c \in [1..n -> 1..Len(FieldSets)] : \A i \in 1..(n - 1) : c[i] <= c[i + 1]} :
           n \in 0..MaxMethods}

FieldLines(fields, statement) ==
    LET of == SelectSeq(FieldOrder, LAMBDA f : f \in fields)
    IN  [k \in 1..Len(of) |-> <<" ", " ", statement[of[k]]>>]

PyStatementOf ==
    "a" :> "self.a = 1" @@ "b" :> "self.b = 1" @@ "c" :> "self.c = 1" @@
    "d" :> "self.d = 1" @@ "e" :> "self.e = 1" @@ "f" :> "self.f = 1"

JavaStatementOf ==
    "a" :> "this.a = 1;" @@ "b" :> "this.b = 1;" @@ "c" :> "this.c = 1;" @@
    "d" :> "this.d = 1;" @@ "e" :> "this.e = 1;" @@ "f" :> "this.f = 1;"

PyMethodText(name, fields) ==
    <<<<" ", "def", " ", name, "(self):">>>>
        \o (IF fields = {} THEN <<<<" ", " ", "pass">>>> ELSE FieldLines(fields, PyStatementOf))

JavaMethodText(name, fields) ==
    <<(IF name = "App" THEN <<" ", "public", " ", "App", "()", " ", "{">>
       ELSE <<" ", "public", " ", "void", " ", name, "()", " ", "{">>)>>
        \o FieldLines(fields, JavaStatementOf) \o <<<<" ", "}">>>>

\* The text of a class whose methods refer to the chosen field sets; the
\* method at position special, if any, is the constructor, and the file
\* then starts with an empty line.
ClassText(language, choice, special) ==
    LET name(i) == IF i # special THEN MethodNames[i]
                   ELSE IF language = "python" THEN "__init__" ELSE "App"
        methods == Flatten([i \in 1..Len(choice) |->
                       IF language = "python" THEN PyMethodText(name(i), FieldSets[choice[i]])
                       ELSE JavaMethodText(name(i), FieldSets[choice[i]])])
        first == IF special > 0 THEN <<<< >>>> ELSE << >>
    IN  IF language = "python"
        THEN (IF methods = << >> THEN <<<<"x = 1">>>>
              ELSE first \o <<<<"class", " ", "App", ":">>>> \o methods)
        ELSE first \o <<<<"public", " ", "class", " ", "App", " ", "{">>>> \o methods \o <<<<"}">>>>

InitClasses ==
    \E language \in {"python", "java"}, choice \in MethodChoices :
        \E special \in 0..Len(choice) :
            Entered(DirRoot,
                    {Entry(<<IF language = "python" THEN "a.py" ELSE "App.java">>,
                           ClassText(language, choice, special))},
                    [DefaultArgs EXCEPT !.max_file_size_kb = 0])

RunPythonFile ==
    /\ pending # << >>
    /\ lower(PathSuffix(pending[1].rel[Len(pending[1].rel)])) = Code[".py"]
    /\ RunEngine("python")

RunJavaFile ==
    /\ pending # << >>
    /\ lower(PathSuffix(pending[1].rel[Len(pending[1].rel)])) = Code[".java"]
    /\ RunEngine("java")

NextClasses ==
    \/ Call
    \/ RunPythonFile
    \/ RunJavaFile
    \/ ScanFileOSError

SpecClasses == InitClasses /\ [][NextClasses]_vars

(***************************************************************************)
(* cli.run_scan (lines 72-128) from line 75 on, on a merged Config.  An    *)
(* object of a dataclass with slots is the record of its fields, so that   *)
(* an attribute it has not is a field its record has not.  min_coverage is *)
(* kept in whole percents.                                                 *)
(***************************************************************************)
ScanConfig(coverage_xml, enabled_rules) ==
    [exclude |-> <<".git", ".venv", "venv", "build", "dist", "__pycache__">>,
     coverage_xml |-> coverage_xml,
     include_extensions |-> <<".py">>,
     include_filenames |-> <<"Dockerfile">>,
     max_file_size_kb |-> 1024,
     skip_generated |-> TRUE,
     enabled_rules |-> enabled_rules,
     disabled_rules |-> << >>,
     inline_ignore |-> TRUE]

QualityGateConfig(fail_on, max_issues, max_files_with_issues, max_critical, min_coverage, baseline_report, only_new_issues) ==
    [fail_on |-> fail_on,
     max_issues |-> max_issues,
     max_files_with_issues |-> max_files_with_issues,
     max_low |-> {},
     max_medium |-> {},
     max_high |-> {},
     max_critical |-> max_critical,
     min_coverage |-> min_coverage,
     baseline_report |-> baseline_report,
     only_new_issues |-> only_new_issues]

ReportConfig == [output_format |-> "json", out |-> {"report.json"}]

Config(scan_config, quality_gate_config) ==
    [scan |-> scan_config, quality_gate |-> quality_gate_config, report |-> ReportConfig]

validate_quality_gate_config(config) ==
    LET numeric_gate_values ==
            <<<<"max_issues", config.quality_gate.max_issues>>,
              <<"max_files_with_issues", config.quality_gate.max_files_with_issues>>,
              <<"max_low", config.quality_gate.max_low>>,
              <<"max_medium", config.quality_gate.max_medium>>,
              <<"max_high", config.quality_gate.max_high>>,
              <<"max_critical", config.quality_gate.max_critical>>>>
        on_fail_on ==
            IF \E f \in config.quality_gate.fail_on : f \notin {"low", "medium", "high", "critical"}
            THEN <<"fail_on must be one of: low, medium, high, critical">> ELSE << >>
        on_value(n) ==
            IF \E value \in numeric_gate_values[n][2] : value < 0
            THEN <<numeric_gate_values[n][1] \o " must be >= 0">> ELSE << >>
        on_coverage ==
            IF \E m \in config.quality_gate.min_coverage : m < 0 \/ m > 100
            THEN <<"min_coverage must be between 0 and 100">> ELSE << >>
        on_new_issues ==
            IF config.quality_gate.only_new_issues /\ config.quality_gate.baseline_report = {}
            THEN <<"only_new_issues requires baseline_report">> ELSE << >>
        on_rules ==
            IF \E rules \in config.scan.enabled_rules : Len(rules) = 0
            THEN <<"enabled_rules must be non-empty when set">> ELSE << >>
    IN  on_fail_on \o on_value(1) \o on_value(2) \o on_value(3) \o on_value(4)
        \o on_value(5) \o on_value(6) \o on_coverage \o on_new_issues \o on_rules

\* The attributes of merged.scan that lines 87-95 read for the arguments
\* of scan_path, in the order Python evaluates them.
ScanPathArguments ==
    <<"exclude", "include_extensions", "include_filenames", "max_file_size_kb",
      "skip_generated", "enabled_rules", "security_only", "disabled_rules", "inline_ignore">>

\* The line rates of the coverage.xml files, in thousandths; none when the
\* file does not exist.
CoverageFiles == {{}, {690}, {700}}

MergedConfigs ==
    {Config(ScanConfig(coverage_xml, enabled_rules),
            QualityGateConfig(fail_on, max_issues, max_files_with_issues, max_critical,
                              min_coverage, baseline_report, only_new_issues)) :
        coverage_xml \in {{}, {"coverage.xml"}},
        enabled_rules \in {{}, {<< >>}, {<<"SS004">>}},
        fail_on \in {{}, {"high"}, {"blocker"}},
        max_issues \in {{}, {-1}, {0}},
        max_files_with_issues \in {{}, {-1}, {1}},
        max_critical \in {{}, {-1}},
        min_coverage \in {{}, {70}, {101}},
        baseline_report \in {{}, {"base.json"}},
        only_new_issues \in BOOLEAN}

RunScanState(merged) ==
    [merged |-> merged, at |-> "validate", coverage |-> {}, stderr |-> << >>,
     written |-> << >>, returned |-> {}, raised |-> {}]

\* Lines 75-79.
ValidationFails ==
    \E c \in cli :
        /\ c.at = "validate"
        /\ validate_quality_gate_config(c.merged) # << >>
        /\ cli' = {[c EXCEPT !.at = "returned", !.returned = {2},
                             !.stderr = [n \in 1..Len(validate_quality_gate_config(c.merged)) |->
                                            "[gate] " \o validate_quality_gate_config(c.merged)[n]]]}
        /\ UNCHANGED <<root, tree, args, pc, pending, issues, files_scanned,
                       inline_ignore_cache, result, scanned, prev, baseline, gate>>

\* Lines 75-76 and 81-83, with a coverage.xml that read_coverage_xml can read.
ReadCoverage ==
    \E c \in cli :
        /\ c.at = "validate"
        /\ validate_quality_gate_config(c.merged) = << >>
        /\ \E file \in CoverageFiles :
              /\ c.merged.scan.coverage_xml # {} => file # {}
              /\ cli' = {[c EXCEPT !.at = "scan_path",
                                   !.coverage = IF c.merged.scan.coverage_xml = {} THEN {} ELSE file]}
        /\ UNCHANGED <<root, tree, args, pc, pending, issues, files_scanned,
                       inline_ignore_cache, result, scanned, prev, baseline, gate>>

\* Lines 75-76 and 81-83, and coverage.py lines 9-12: there is no coverage.xml.
CoverageNotFound ==
    \E c \in cli :
        /\ c.at = "validate"
        /\ validate_quality_gate_config(c.merged) = << >>
        /\ c.merged.scan.coverage_xml # {}
        /\ cli' = {[c EXCEPT !.at = "raised", !.raised = {"FileNotFoundError"}]}
        /\ UNCHANGED <<root, tree, args, pc, pending, issues, files_scanned,
                       inline_ignore_cache, result, scanned, prev, baseline, gate>>

\* Lines 85-96: the arguments of scan_path are evaluated before it is
\* called, and reading an attribute that ScanConfig has not raises.  Lines
\* 97-128 follow the call of an object that has them all.
ArgumentRaises ==
    \E c \in cli :
        /\ c.at = "scan_path"
        /\ \E n \in 1..Len(ScanPathArguments) : ScanPathArguments[n] \notin DOMAIN c.merged.scan
        /\ cli' = {[c EXCEPT !.at = "raised", !.raised = {"AttributeError"}]}
        /\ UNCHANGED <<root, tree, args, pc, pending, issues, files_scanned,
                       inline_ignore_cache, result, scanned, prev, baseline, gate>>

InitCli ==
    \E merged \in MergedConfigs :
        /\ root = DirRoot
        /\ tree = CoreTree
        /\ args = DefaultArgs
        /\ pc = "idle"
        /\ pending = << >>
        /\ issues = << >>
        /\ files_scanned = 0
        /\ inline_ignore_cache = << >>
        /\ result = {}
        /\ scanned = << >>
        /\ prev = {}
        /\ baseline = {}
        /\ gate = {}
        /\ cli = {RunScanState(merged)}

NextCli ==
    \/ ValidationFails
    \/ ReadCoverage
    \/ CoverageNotFound
    \/ ArgumentRaises

SpecCli == InitCli /\ [][NextCli]_vars

(***************************************************************************)
(* Properties.                                                             *)
(***************************************************************************)
\* The issues of a list that name one file.
IssuesOf(issue_list, file_path) ==
    SelectSeq(issue_list, LAMBDA issue : issue.file_path = file_path)

\* C1: when scan_path is called with disabled_rules containing a rule id
\* R, no Issue with rule_id = R is in the returned ScanResult, whatever
\* the tree contains and whatever happens while files are read.
C1_DisabledRulesAbsent ==
    \A r \in result : \A rules \in args.disabled_rules : \A i \in 1..Len(r.issues) :
        r.issues[i].rule_id \notin Range(rules)

\* C2: when enabled_rules is a list (any list, as opposed to None), every
\* Issue of the returned ScanResult has a rule_id that is in the list.
C2_OnlyEnabledRules ==
    \A r \in result : \A rules \in args.enabled_rules : \A i \in 1..Len(r.issues) :
        r.issues[i].rule_id \in Range(rules)

\* C3: no two Issues of a returned ScanResult share the fingerprint
\* (file_path, rule_id, line, column, message), whatever issues were fed
\* into the deduplication.
C3_UniqueFingerprints ==
    \A r \in result : \A i, j \in 1..Len(r.issues) :
        i # j =>
            <<r.issues[i].file_path, r.issues[i].rule_id, r.issues[i].line,
              r.issues[i].column, r.issues[i].message>>
            # <<r.issues[j].file_path, r.issues[j].rule_id, r.issues[j].line,
                r.issues[j].column, r.issues[j].message>>

\* A result returned for a list that held two different issues of one
\* fingerprint.
C3_Witness ==
    /\ result # {}
    /\ \E i, j \in 1..Len(issues) :
          /\ i < j
          /\ issues[i] # issues[j]
          /\ issues[i].file_path = issues[j].file_path
          /\ issues[i].rule_id = issues[j].rule_id
          /\ issues[i].line = issues[j].line
          /\ issues[i].column = issues[j].column
          /\ issues[i].message = issues[j].message

\* The order of the tuples (file_path, line, column, rule_id), the strings
\* compared character by character.
KeyLeq(a, b) ==
    LET pa == PathStr(a.file_path)
        pb == PathStr(b.file_path)
    IN  \/ SeqLess(pa, pb)
        \/ /\ pa = pb
           /\ \/ a.line < b.line
              \/ /\ a.line = b.line
                 /\ \/ a.column < b.column
                    \/ /\ a.column = b.column
                       /\ ~SeqLess(Code[b.rule_id], Code[a.rule_id])

\* C4: the issue list of a returned ScanResult is non-decreasing under the
\* lexicographic key (file_path, line, column, rule_id).
C4_SortedByKey ==
    \A r \in result : \A i \in 1..(Len(r.issues) - 1) :
        KeyLeq(r.issues[i], r.issues[i + 1])

\* A result of three issues returned for a list that was in another order.
C4_Witness ==
    \E r \in result : Len(r.issues) = 3 /\ Len(issues) = 3 /\ r.issues # issues

\* The engine the extension of a file name selects.
ClaimedEngine(name) ==
    LET suffix == lower(PathSuffix(name))
    IN  CASE suffix = Code[".py"] -> "python"
          [] suffix = Code[".java"] -> "java"
          [] suffix = Code[".kt"] -> "kotlin"
          [] suffix \in {Code[".js"], Code[".jsx"]} -> "javascript"
          [] suffix = Code[".go"] -> "go"
          [] OTHER -> "generic"

\* C5: every eligible file is dispatched to the engine its extension
\* selects (.py Python, .java Java, .kt Kotlin, .js/.jsx JavaScript, .go Go,
\* anything else Generic), and the issues of the file are that engine's.
C5_DispatchByExtension ==
    \A i \in 1..Len(scanned) :
        LET path == AbsPath(scanned[i].entry)
            engine == ClaimedEngine(path[Len(path)])
        IN  /\ scanned[i].engine = engine
            /\ scanned[i].outcome = "returned" =>
                  scanned[i].file_issues =
                      EngineRun(engine, [path |-> path, text |-> scanned[i].entry.text])

\* Position of the marker in a line, the keyword in any case; 0 if none.
MarkerAt(line) ==
    LET ks == {k \in 1..Len(line) : upper(line[k]) = "SUPERSONAR:IGNORE"}
    IN  IF ks = {} THEN 0 ELSE CHOOSE k \in ks : \A j \in ks : k <= j

\* The comma-separated tokens of the rule list after the marker of a line;
\* none when no rule list follows.
ListedTokens(line) ==
    LET list == MatchGroup1(line, MarkerAt(line))
    IN  IF list = {} THEN << >> ELSE SplitComma(CHOOSE atoms \in list : TRUE)

\* A token of the list is the rule id, compared case-insensitively.
ListNames(line, rule_id) ==
    \E n \in 1..Len(ListedTokens(line)) :
        LET token == StripToken(ListedTokens(line)[n])
        IN  Len(token) = 1 /\ upper(token[1]) = rule_id

\* The list names no rule at all: there is none, or it holds commas and
\* blanks only.
ListIsBlank(line) ==
    \A n \in 1..Len(ListedTokens(line)) : StripToken(ListedTokens(line)[n]) = << >>

\* The n-th issue of a file's engine run is not among the issues kept.
Dropped(rec, n) ==
    \A m \in 1..Len(rec.filtered) :
        rec.filtered[m] # [rec.file_issues[n] EXCEPT !.file_path = NormalizedPath(rec.entry)]

\* C6 (as stated): with inline_ignore on, an Issue at line L is dropped if
\* and only if line L bears the marker and either no rule list follows it
\* or the list contains the Issue's rule id; with inline_ignore off no
\* Issue is dropped.
C6_InlineIgnoreAsStated ==
    \A i \in 1..Len(scanned) : \A n \in 1..Len(scanned[i].file_issues) :
        LET rec == scanned[i]
            issue == rec.file_issues[n]
            text == rec.entry.text
        IN  Dropped(rec, n) <=>
                /\ args.inline_ignore
                /\ issue.line \in 1..Len(text)
                /\ MarkerAt(text[issue.line]) > 0
                /\ \/ MatchGroup1(text[issue.line], MarkerAt(text[issue.line])) = {}
                   \/ ListNames(text[issue.line], issue.rule_id)

\* C6: with inline_ignore on and the file read for its markers, an Issue
\* an engine reported at line L is dropped if and only if line L bears the
\* marker (keyword in any case) and either the rule list after it names no
\* rule (no list, or commas and blanks only) or one of its comma-separated
\* tokens is the Issue's rule id in any case; when that read fails, or
\* with inline_ignore off, no Issue is dropped.
C6_InlineIgnore ==
    \A i \in 1..Len(scanned) : \A n \in 1..Len(scanned[i].file_issues) :
        LET rec == scanned[i]
            issue == rec.file_issues[n]
            text == rec.entry.text
        IN  Dropped(rec, n) <=>
                /\ args.inline_ignore
                /\ rec.map_read_ok
                /\ issue.line \in 1..Len(text)
                /\ MarkerAt(text[issue.line]) > 0
                /\ \/ ListIsBlank(text[issue.line])
                   \/ ListNames(text[issue.line], issue.rule_id)

\* A file with an issue dropped by a rule list written in lower case and
\* another issue kept.
C6_Witness ==
    \E i \in 1..Len(scanned) : \E n, m \in 1..Len(scanned[i].file_issues) :
        LET rec == scanned[i]
            line == rec.entry.text[rec.file_issues[n].line]
        IN  /\ args.inline_ignore
            /\ Dropped(rec, n)
            /\ ~Dropped(rec, m)
            /\ ~ListIsBlank(line)
            /\ Search(line, {"ss004"}) > 0

\* C7: a file whose read fails with an I/O error inside its engine has
\* exactly one Issue, the synthetic one (SS900, 'File scan error', medium,
\* line 1, column 1), in the collected issues and in the result; it is
\* counted in files_scanned; the scan goes on to the files after it, so a
\* returned result covers every eligible file and an exception that ends
\* the scan comes from another file.
C7_ScanErrorIssue ==
    \A i \in 1..Len(scanned) :
        scanned[i].outcome = "OSError" =>
            LET file_path == NormalizedPath(scanned[i].entry)
                IsTheOne(issue_list) ==
                    /\ Len(IssuesOf(issue_list, file_path)) = 1
                    /\ IssuesOf(issue_list, file_path)[1].rule_id = "SS900"
                    /\ IssuesOf(issue_list, file_path)[1].title = "File scan error"
                    /\ IssuesOf(issue_list, file_path)[1].severity = "medium"
                    /\ IssuesOf(issue_list, file_path)[1].line = 1
                    /\ IssuesOf(issue_list, file_path)[1].column = 1
            IN  /\ IsTheOne(issues)
                /\ files_scanned >= i
                /\ pc = "raised" => pending[1] # scanned[i].entry
                /\ \A r \in result :
                      /\ IsTheOne(r.issues)
                      /\ r.files_scanned = Len(scanned)
                      /\ \A e \in tree : Eligible(e) =>
                            \E j \in 1..Len(scanned) : scanned[j].entry = e

\* A result returned after a file could not be read and a later file gave
\* issues.
C7_Witness ==
    /\ result # {}
    /\ \E i, j \in 1..Len(scanned) :
          /\ i < j
          /\ scanned[i].outcome = "OSError"
          /\ scanned[j].outcome = "returned"
          /\ scanned[j].filtered # << >>

\* C8: no failure while a file is examined or analysed (a failing stat, a
\* failing read, a failure of an engine or parser) aborts scan_path.
C8_NeverRaises == pc # "raised"

\* C9: every Issue an engine or the orchestrator emits has line >= 1 and
\* column >= 1.
C9_PositivePositions ==
    /\ \A i \in 1..Len(issues) : issues[i].line >= 1 /\ issues[i].column >= 1
    /\ \A i \in 1..Len(scanned) : \A n \in 1..Len(scanned[i].file_issues) :
          scanned[i].file_issues[n].line >= 1 /\ scanned[i].file_issues[n].column >= 1

\* The syntax-error issue of a file with a null byte, for which the parser
\* gives no position.
C9_Witness ==
    /\ \E i \in 1..Len(issues) : issues[i].rule_id = "SS000"
    /\ \E e \in tree : \E n \in 1..Len(e.text) : Search(e.text[n], {"NUL"}) > 0

\* C10: two calls of scan_path with the same arguments on an unchanged
\* tree (the same files, readable or not as before) return the same issues
\* in the same order and the same files_scanned, in whatever order the
\* operating system lists the directory entries.
C10_Deterministic ==
    \A p \in prev : \A r \in result :
        Outcomes = p.outcomes => r = p.result

\* A second call that returned two issues or more for a tree of several
\* files.
C10_Witness ==
    /\ prev # {}
    /\ Cardinality(tree) >= 2
    /\ \E r \in result : Len(r.issues) >= 2 /\ Len(scanned) >= 2
    /\ \A p \in prev : Outcomes = p.outcomes

\* The files the engines were run on.
ScannedEntries == {scanned[i].entry : i \in 1..Len(scanned)}

\* A directory between the scan root and a file bears an excluded name.
UnderExcludedDir(entry) ==
    \E k \in 1..(Len(entry.rel) - 1) : entry.rel[k] \in Range(args.excludes)

\* C11: in a finished walk a file that is otherwise eligible is left out
\* because of the exclude set only if a directory between the scan root and
\* the file has an excluded name, whatever the names of the root and of its
\* ancestors.
C11_ExcludeByDirectoryName ==
    (pc = "done" /\ ~root.is_file) =>
        \A e \in tree :
            (/\ ~(args.skip_generated /\ _is_generated_path(AbsPath(e)))
             /\ _has_allowed_target(e, AbsPath(e), include_ext_set(args.include_extensions),
                                    args.include_filenames, args.max_file_size_kb)
             /\ e \notin ScannedEntries)
            => UnderExcludedDir(e)

\* A directory between the scan root and a file is a known generated one.
UnderGeneratedDir(entry) ==
    \E k \in 1..(Len(entry.rel) - 1) :
        \/ entry.rel[k] \in {"target", ".mypy_cache", ".pytest_cache", ".tox", ".nox",
                              ".ruff_cache", "node_modules", ".gradle", ".eggs"}
        \/ endswith(Code[entry.rel[k]], Code[".egg-info"])

\* C12: in a finished walk a file under a known generated directory of the
\* tree (target/, node_modules/, *.egg-info/, ...) has no Issue in the
\* result and is not counted in files_scanned when skip_generated is true;
\* when skip_generated is false it is scanned like any other file: it is
\* dispatched when it is an allowed target outside every excluded name, and
\* the issues kept for it are those of the engine its name selects.
C12_GeneratedSkipped ==
    (pc = "done" /\ ~root.is_file) =>
        \A e \in tree : UnderGeneratedDir(e) =>
            IF args.skip_generated
            THEN /\ e \notin ScannedEntries
                 /\ files_scanned = Len(scanned)
                 /\ \A r \in result :
                       /\ r.files_scanned = Cardinality(ScannedEntries)
                       /\ \A i \in 1..Len(r.issues) : r.issues[i].file_path # e.rel
            ELSE (/\ \A k \in 1..Len(AbsPath(e)) : AbsPath(e)[k] \notin Range(args.excludes)
                  /\ _has_allowed_target(e, AbsPath(e), include_ext_set(args.include_extensions),
                                         args.include_filenames, args.max_file_size_kb))
                 => \E i \in 1..Len(scanned) :
                       /\ scanned[i].entry = e
                       /\ scanned[i].outcome = "returned" =>
                             scanned[i].file_issues =
                                 EngineRun(Dispatch(AbsPath(e)),
                                           [path |-> AbsPath(e), text |-> e.text])

\* A finished walk with skip_generated that met a Python file under
\* target/ and scanned another file, with issues.
C12_Witness ==
    /\ pc = "done"
    /\ args.skip_generated
    /\ \E e \in tree :
          /\ e.rel = <<"target", "a.py">>
          /\ _has_allowed_target(e, AbsPath(e), include_ext_set(args.include_extensions),
                                 args.include_filenames, args.max_file_size_kb)
    /\ \E r \in result : r.files_scanned = 1 /\ r.issues # << >>

\* The name of a file is an allowed one, or its extension in lower case is
\* an allowed extension (the configured extensions in lower case, a dot put
\* before those that lack it).
NameIsAllowed(name) ==
    \/ name \in args.include_filenames
    \/ \E n \in 1..Len(args.include_extensions) :
           LET ext == lower(Code[args.include_extensions[n]])
           IN  lower(PathSuffix(name)) = IF ext # << >> /\ ext[1] = 46 THEN ext ELSE <<46>> \o ext

\* C13 (as stated): a path that passed the exclude and generated checks is
\* scanned if and only if it is a regular file, its size is at most
\* max_file_size_kb * 1024 bytes or max_file_size_kb is 0, and its name or
\* extension is allowed.
C13_EligibleAsStated ==
    pc = "done" =>
        \A e \in tree : PassesPathChecks(e) =>
            (e \in ScannedEntries <=>
                /\ e.regular
                /\ args.max_file_size_kb = 0 \/ e.size <= args.max_file_size_kb * 1024
                /\ NameIsAllowed(AbsPath(e)[Len(AbsPath(e))]))

\* C13: a path that passed the exclude and generated checks is scanned if
\* and only if it is a regular file, its size is at most
\* max_file_size_kb * 1024 bytes or max_file_size_kb is 0 or negative (no
\* cap), and its name is an allowed file name or its extension in lower
\* case an allowed extension; a file of exactly max_file_size_kb * 1024
\* bytes is scanned.
C13_EligibleTarget ==
    pc = "done" =>
        \A e \in tree : PassesPathChecks(e) =>
            (e \in ScannedEntries <=>
                /\ e.regular
                /\ args.max_file_size_kb <= 0 \/ e.size <= args.max_file_size_kb * 1024
                /\ NameIsAllowed(AbsPath(e)[Len(AbsPath(e))]))

\* A finished walk with a cap of 1 KB that scanned a file of 1024 bytes and
\* left out a file of 1025 bytes with an allowed extension.
C13_Witness ==
    /\ pc = "done"
    /\ args.max_file_size_kb = 1
    /\ \E e \in ScannedEntries : e.size = 1024
    /\ \E e \in tree :
          /\ e.size = 1025
          /\ PassesPathChecks(e)
          /\ NameIsAllowed(AbsPath(e)[Len(AbsPath(e))])
          /\ e \notin ScannedEntries

\* C14: when a Python file cannot be parsed, PythonRuleEngine.run returns
\* exactly one SS000 'Syntax error' Issue at the line and column the parser
\* reports (1 where it reports none), together with every Issue of the
\* line-based checks (SS004, SS003) and no Issue of an AST-based check; so
\* a run that ends in an exception is not the run of a file the parser
\* could not parse.
C14_SyntaxErrorIssue ==
    /\ \A i \in 1..Len(scanned) :
          LET rec == scanned[i]
              file == [path |-> AbsPath(rec.entry), text |-> rec.entry.text]
              failure == ast_parse(rec.entry.text)
              of(rules) == SelectSeq(rec.file_issues, LAMBDA issue : issue.rule_id \in rules)
          IN  (rec.engine = "python" /\ rec.outcome = "returned" /\ failure.kind # "Module") =>
                  /\ Len(of({"SS000"})) = 1
                  /\ of({"SS000"})[1].title = "Syntax error"
                  /\ of({"SS000"})[1].line = (IF failure.lineno = {} THEN 1
                                               ELSE CHOOSE n \in failure.lineno : TRUE)
                  /\ of({"SS000"})[1].column = (IF failure.offset = {} THEN 1
                                                 ELSE CHOOSE n \in failure.offset : TRUE)
                  /\ of({"SS004", "SS003"}) =
                         Python_find_todo_fixme(file.text, file.path)
                         \o Python_find_secrets(file.text, file.path)
                  /\ Len(rec.file_issues) = 1 + Len(of({"SS004", "SS003"}))
    /\ (pc = "raised" /\ files_scanned > Len(scanned)) =>
          \/ Dispatch(AbsPath(pending[1])) # "python"
          \/ ast_parse(pending[1].text).kind = "Module"

\* C15: in security-only mode (enabled_rules is what resolve_enabled_rules
\* gives for the configured value: None, a list with security rule ids, a
\* list with none) every Issue of the returned ScanResult has a rule id of
\* SECURITY_RULE_IDS.
C15_SecurityOnly ==
    \A r \in result : \A i \in 1..Len(r.issues) :
        r.issues[i].rule_id \in
            {"SS001", "SS003", "SS005", "SS006", "SS007", "SS008", "SS009", "SS101",
             "SS102", "SS107", "SS108", "SS109", "SS110", "SS111", "SS112", "SS113",
             "SS114", "SS221", "SS306", "SS407", "SS408", "SS507"}

\* The rank of a severity: low < medium < high < critical.
Rank(severity) ==
    CASE severity = "low" -> 1
      [] severity = "medium" -> 2
      [] severity = "high" -> 3
      [] severity = "critical" -> 4

\* The thresholds a report violates, by name.
Violated(report, t) ==
    LET count(s) == Cardinality({i \in 1..Len(report.issues) : report.issues[i].severity = s})
    IN  {name \in {"fail_on", "max_issues", "max_low", "max_medium", "max_high",
                   "max_critical", "min_coverage"} :
            CASE name = "fail_on" ->
                     \E f \in t.fail_on : \E i \in 1..Len(report.issues) :
                         Rank(report.issues[i].severity) >= Rank(f)
              [] name = "max_issues" -> \E m \in t.max_issues : Len(report.issues) > m
              [] name = "max_low" -> \E m \in t.max_low : count("low") > m
              [] name = "max_medium" -> \E m \in t.max_medium : count("medium") > m
              [] name = "max_high" -> \E m \in t.max_high : count("high") > m
              [] name = "max_critical" -> \E m \in t.max_critical : count("critical") > m
              [] name = "min_coverage" ->
                     \E m \in t.min_coverage :
                         \/ report.coverage = {}
                         \/ \E line_rate \in report.coverage : line_rate * 100 < m}

C17_NewIssuesOnly ==
    \A b \in baseline :
        LET given == b.given.issues
            new == b.returned.new_result.issues
            IsNew(issue) ==
                <<issue.file_path, issue.rule_id, issue.line, issue.column, issue.message>>
                    \notin b.fingerprints
        IN  /\ \A i \in 1..Len(given) : IsNew(given[i]) <=> \E j \in 1..Len(new) : new[j] = given[i]
            /\ \A j \in 1..Len(new) : \E i \in 1..Len(given) : given[i] = new[j]
            /\ Len(new) = Cardinality({i \in 1..Len(given) : IsNew(given[i])})
            /\ \A j, k \in 1..Len(new) :
                  j < k => \E i, m \in 1..Len(given) :
                               i < m /\ given[i] = new[j] /\ given[m] = new[k]
            /\ b.returned.baseline_matched = Len(given) - Len(new)
            /\ b.returned.new_result.files_scanned = b.given.files_scanned
            /\ b.returned.new_result.coverage = b.given.coverage
            /\ result = {b.given}

\* A report of three issues filtered against a baseline that holds one of
\* them, with coverage data.
C17_Witness ==
    \E b \in baseline :
        /\ Len(b.given.issues) = 3
        /\ Len(b.returned.new_result.issues) = 2
        /\ b.returned.baseline_matched = 1
        /\ b.given.coverage # {}

\* The 4-line window that starts at line i of a text, whitespace-normalized.
Window(text, i) == [n \in 1..4 |-> NormalizedLine(text[i + n - 1])]

\* The window at line i counts: it lies in the text, none of its lines is
\* empty and their combined length is at least 80.
Counts(text, i) ==
    /\ i \in 1..(Len(text) - 3)
    /\ \A n \in 1..4 : Window(text, i)[n] # << >>
    /\ LineLen(Window(text, i)[1]) + LineLen(Window(text, i)[2])
       + LineLen(Window(text, i)[3]) + LineLen(Window(text, i)[4]) >= 80

\* The line of the first occurrence of the window at line i.
FirstOccurrence(text, i) ==
    CHOOSE j \in 1..i :
        /\ Counts(text, j) /\ Window(text, j) = Window(text, i)
        /\ \A k \in 1..(j - 1) : ~(Counts(text, k) /\ Window(text, k) = Window(text, i))

\* The lines where a window occurs that occurred before.
RepeatLines(text) ==
    {i \in 1..(Len(text) - 3) : Counts(text, i) /\ FirstOccurrence(text, i) < i}

\* The SS105 Issues of an engine run.
DuplicateIssues(rec) == SelectSeq(rec.file_issues, LAMBDA issue : issue.rule_id = "SS105")

\* Every SS105 Issue is at the start of a repeated occurrence and names the
\* line of the first occurrence; no two are at the same line; there are at
\* most 20, and every repeated occurrence has one unless the 20 are spent;
\* they come group by group, in the order of the first occurrences.
OnePerRepeat(rec) ==
    LET text == rec.entry.text
        found == DuplicateIssues(rec)
        repeats == RepeatLines(text)
        key(line) == <<FirstOccurrence(text, line), line>>
    IN  /\ \A n \in 1..Len(found) :
              /\ found[n].line \in repeats
              /\ found[n].message =
                     "Repeated 4-line block detected (first seen near line "
                         \o ToString(FirstOccurrence(text, found[n].line)) \o ")."
        /\ \A n, m \in 1..Len(found) : n < m => SeqLess(key(found[n].line), key(found[m].line))
        /\ Len(found) <= 20
        /\ Len(found) = IF Cardinality(repeats) <= 20 THEN Cardinality(repeats) ELSE 20
        /\ \A line \in repeats :
              (\A n \in 1..Len(found) : found[n].line # line) =>
                  \A n \in 1..Len(found) : SeqLess(key(found[n].line), key(line))

\* The runs of the engines that look for duplicated blocks and returned.
BlockRuns ==
    {i \in 1..Len(scanned) : scanned[i].engine # "python" /\ scanned[i].outcome = "returned"}

\* C18 (as stated): for every file, every 4-line window that counts and
\* occurs 2 or more times yields one SS105 Issue per occurrence after the
\* first, at that occurrence's line, naming the first occurrence's line;
\* at most 20 SS105 Issues per file.
C18_DuplicateBlocksAsStated ==
    \A i \in BlockRuns : OnePerRepeat(scanned[i])

\* C18: the same for every file of at least 8 lines, the Issues produced
\* group by group in the order of the first occurrences until 20 are
\* reached; a file of fewer than 8 lines yields no SS105 Issue.
C18_DuplicateBlocks ==
    \A i \in BlockRuns :
        IF Len(scanned[i].entry.text) >= 8 THEN OnePerRepeat(scanned[i])
        ELSE DuplicateIssues(scanned[i]) = << >>

\* A file with more than 20 repeated occurrences that got 20 SS105 Issues.
C18_Witness ==
    \E i \in BlockRuns :
        /\ Len(DuplicateIssues(scanned[i])) = 20
        /\ Cardinality(RepeatLines(scanned[i].entry.text)) > 20

\* The runs of the bracket-language engines that returned.
BracketRuns ==
    {i \in 1..Len(scanned) :
        /\ scanned[i].engine \in {"go", "java", "javascript", "kotlin"}
        /\ scanned[i].outcome = "returned"}

TooLongRule(engine) ==
    CASE engine = "go" -> "SS404"
      [] engine = "java" -> "SS207"
      [] engine = "javascript" -> "SS304"
      [] engine = "kotlin" -> "SS505"

\* The position of the function's name in a line that the engine takes for
\* a function header, 0 for any other line.
HeaderOf(engine, line) ==
    CASE engine = "go" -> FUNC_PATTERN(line)
      [] engine = "java" -> METHOD_PATTERN(line)
      [] engine = "kotlin" -> FUNCTION_PATTERN(line)
      [] engine = "javascript" ->
            IF FUNCTION_DECL_PATTERN(line) > 0 THEN FUNCTION_DECL_PATTERN(line)
            ELSE ARROW_DECL_PATTERN(line)

\* The header lines that contain an opening brace.
HeaderLines(engine, text) ==
    {i \in 1..Len(text) : HeaderOf(engine, text[i]) > 0 /\ BraceCount(text[i], "{") > 0}

\* The closing line of the balanced block of the header at line i: the
\* first line at whose end the braces from the header on are balanced; 0
\* when the block is still open at the end of the file.
ClosingLine(text, i) ==
    LET closed == {j \in i..Len(text) : Depth(text, i, j) <= 0}
    IN  IF closed = {} THEN 0 ELSE CHOOSE j \in closed : \A k \in closed : j <= k

\* The number of 'too long' Issues of a run at line i.
TooLongAt(rec, i) ==
    Cardinality({n \in 1..Len(rec.file_issues) :
        /\ rec.file_issues[n].rule_id = TooLongRule(rec.engine)
        /\ rec.file_issues[n].line = i})

\* What the claim expects at the header at line i of a balanced block: one
\* Issue for more than 60 lines, unless a Java method has the name of the
\* file, none otherwise.
ExpectedAt(rec, i) ==
    LET text == rec.entry.text
        exempt == /\ rec.engine = "java"
                  /\ _is_constructor_name(text[i], HeaderOf("java", text[i]), AbsPath(rec.entry))
    IN  IF ClosingLine(text, i) - i + 1 > 60 /\ ~exempt THEN 1 ELSE 0

\* The header at line i lies in the block of a header before it (a block
\* that is still open at the end of the file reaches to the last line).
Inside(engine, text, i) ==
    \E h \in HeaderLines(engine, text) :
        /\ h < i
        /\ ClosingLine(text, h) = 0 \/ i <= ClosingLine(text, h)

\* C19 (as stated): in each bracket-language engine a function whose header
\* line has an opening brace and whose balanced block spans more than 60
\* lines yields exactly one 'too long' Issue at the header line, a block of
\* 60 lines or fewer none, a Java method named like the file none.
C19_TooLongAsStated ==
    \A r \in BracketRuns :
        \A i \in HeaderLines(scanned[r].engine, scanned[r].entry.text) :
            ClosingLine(scanned[r].entry.text, i) > 0 =>
                TooLongAt(scanned[r], i) = ExpectedAt(scanned[r], i)

\* C19: the same for the functions whose header does not lie in the block
\* of a header before it; a function whose header lies in such a block
\* yields no 'too long' Issue, whatever its length; and every 'too long'
\* Issue is at a header line.
C19_TooLong ==
    \A r \in BracketRuns :
        LET rec == scanned[r]
            text == rec.entry.text
            headers == HeaderLines(rec.engine, text)
        IN  /\ \A i \in headers :
                  IF Inside(rec.engine, text, i) THEN TooLongAt(rec, i) = 0
                  ELSE ClosingLine(text, i) > 0 => TooLongAt(rec, i) = ExpectedAt(rec, i)
            /\ \A i \in 1..Len(text) : i \notin headers => TooLongAt(rec, i) = 0

\* A function of more than 60 lines that got its one Issue, with a function
\* of more than 60 lines inside that got none.
C19_Witness ==
    \E r \in BracketRuns :
        LET rec == scanned[r]
            text == rec.entry.text
        IN  \E i, j \in HeaderLines(rec.engine, text) :
                /\ i < j
                /\ ClosingLine(text, i) > 0
                /\ j <= ClosingLine(text, i)
                /\ ClosingLine(text, j) - j + 1 > 60
                /\ TooLongAt(rec, i) = 1
                /\ TooLongAt(rec, j) = 0

\* The runs of the generic engine on a file recognised as a Dockerfile.
DockerRuns ==
    {i \in 1..Len(scanned) :
        /\ scanned[i].engine = "generic"
        /\ scanned[i].outcome = "returned"
        /\ IsDockerfile(AbsPath(scanned[i].entry))}

\* The lines of a Dockerfile that are a USER instruction: the keyword, in
\* either case, then whitespace, then the value; and those whose value is
\* root or 0.
UserLines(text) ==
    {i \in 1..Len(text) :
        LET words == strip(text[i])
        IN  Len(words) >= 3 /\ upper(words[1]) = "USER" /\ words[2] \in Whitespace}

RootUserLines(text) ==
    {i \in UserLines(text) :
        strip(SubSeq(strip(text[i]), 3, Len(strip(text[i])))) \in {<<"root">>, <<"0">>}}

\* The positions of the SS108 Issues of a run.
RootIssues(rec) ==
    {n \in 1..Len(rec.file_issues) : rec.file_issues[n].rule_id = "SS108"}

\* C20: for a file recognised as a Dockerfile the generic engine emits an
\* SS108 Issue if and only if the file has no USER instruction or a USER
\* instruction whose value is root or 0; with no USER instruction there is
\* exactly one, at line 1 column 1; each USER root or USER 0 line has
\* exactly one at its line.
C20_DockerRootUser ==
    \A r \in DockerRuns :
        LET rec == scanned[r]
            text == rec.entry.text
            found == RootIssues(rec)
        IN  /\ found # {} <=> (UserLines(text) = {} \/ RootUserLines(text) # {})
            /\ UserLines(text) = {} =>
                  /\ Cardinality(found) = 1
                  /\ \A n \in found : rec.file_issues[n].line = 1 /\ rec.file_issues[n].column = 1
            /\ \A i \in RootUserLines(text) :
                  Cardinality({n \in found : rec.file_issues[n].line = i}) = 1

\* The returned runs of one engine.
RunsOf(engine) ==
    {i \in 1..Len(scanned) : scanned[i].engine = engine /\ scanned[i].outcome = "returned"}

\* The lines of a text that hold one of the lexemes of S.
LinesWith(text, S) == {i \in 1..Len(text) : Search(text[i], S) > 0}

\* An Issue of a rule at a line among the issues of a run.
HasIssueAt(rec, rule_id, i) ==
    \E n \in 1..Len(rec.file_issues) :
        rec.file_issues[n].rule_id = rule_id /\ rec.file_issues[n].line = i

\* C21: GoRuleEngine.run emits an SS408 Issue for a line that calls
\* exec.Command and an SS407 Issue for a line that sets
\* InsecureSkipVerify: true.
C21_GoSecuritySmells ==
    \A r \in RunsOf("go") :
        LET rec == scanned[r]
            text == rec.entry.text
        IN  /\ \A i \in LinesWith(text, {"exec.Command(cmd)"}) : HasIssueAt(rec, "SS408", i)
            /\ \A i \in LinesWith(text, {"InsecureSkipVerify: true"}) : HasIssueAt(rec, "SS407", i)

\* C22: on a file that parses, PythonRuleEngine.run emits an SS008 Issue
\* for a call of pickle.loads and an SS009 Issue for a requests call made
\* with verify=False.
C22_PythonSecuritySmells ==
    \A r \in RunsOf("python") :
        LET rec == scanned[r]
            text == rec.entry.text
        IN  ast_parse(text).kind = "Module" =>
            /\ \A i \in LinesWith(text, {"pickle.loads(data)"}) : HasIssueAt(rec, "SS008", i)
            /\ \A i \in LinesWith(text, {"requests.get(url, verify=False)"}) :
                  HasIssueAt(rec, "SS009", i)

NestingRule(engine) ==
    CASE engine = "go" -> "SS405"
      [] engine = "java" -> "SS208"
      [] engine = "javascript" -> "SS305"
      [] engine = "kotlin" -> "SS506"

\* The braces of a text in text order.
BracesOf(text) ==
    Flatten([i \in 1..Len(text) |->
        Flatten([k \in 1..Len(text[i]) |->
            CASE text[i][k] = "{" -> <<"{">>
              [] text[i][k] = "}" -> <<"}">>
              [] text[i][k] = "{}" -> <<"{", "}">>
              [] OTHER -> << >>])])

\* The running depth after the first p braces.
RECURSIVE RunningDepth(_, _)
RunningDepth(braces, p) ==
    IF p = 0 THEN 0
    ELSE RunningDepth(braces, p - 1) + (IF braces[p] = "{" THEN 1 ELSE -1)

\* The maximum over the opening braces of (running depth - 1) right after
\* the brace, 0 for a text without an opening brace.
TextOrderMaximum(text) ==
    LET braces == BracesOf(text)
        after == {RunningDepth(braces, p) - 1 : p \in {q \in 1..Len(braces) : braces[q] = "{"}}
    IN  IF after = {} THEN 0 ELSE CHOOSE m \in after : \A n \in after : n <= m

\* The nesting Issues of a run.
NestingIssues(rec) ==
    SelectSeq(rec.file_issues, LAMBDA issue : issue.rule_id = NestingRule(rec.engine))

\* C23: a bracket-language engine emits exactly one nesting Issue, at line
\* 1, naming the maximum, if and only if the maximum over all opening
\* braces of (running depth - 1) right after the brace, taken in text
\* order, exceeds 4; otherwise it emits none.
C23_NestingDepth ==
    \A r \in BracketRuns :
        LET rec == scanned[r]
            maximum == TextOrderMaximum(rec.entry.text)
            found == NestingIssues(rec)
        IN  IF maximum > 4
            THEN /\ Len(found) = 1
                 /\ found[1].line = 1
                 /\ found[1].message = "Maximum block nesting depth is " \o ToString(maximum)
                                          \o "; keep it at or below 4."
            ELSE found = << >>

\* The index the inner loop returns for the header at line i.
ScanFrom(text, i) ==
    BlockEnd(text, i, BraceCount(text[i], "{") - BraceCount(text[i], "}"))

\* C24: for a header line i with an opening brace the balanced-block scan
\* returns the smallest j >= i at which the sum of the per-line
\* (count('{') - count('}')) of the lines i..j is no longer positive, and
\* the last line of the file when the sum stays positive; i <= j and j is
\* never beyond the last line.
C24_BalancedBlockScan ==
    \A r \in BracketRuns :
        LET text == scanned[r].entry.text
        IN  \A i \in HeaderLines(scanned[r].engine, text) :
                /\ i <= ScanFrom(text, i) /\ ScanFrom(text, i) <= Len(text)
                /\ \A j \in i..(ScanFrom(text, i) - 1) : Depth(text, i, j) > 0
                /\ \/ Depth(text, i, ScanFrom(text, i)) <= 0
                   \/ ScanFrom(text, i) = Len(text)

\* A run on a file with a header whose block closes after the header and
\* before the last line, and one on a file whose header's block is still
\* open at the last line.
C24_Witness ==
    /\ \E r \in BracketRuns :
          LET text == scanned[r].entry.text
          IN  \E i \in HeaderLines(scanned[r].engine, text) :
                  \/ i < ScanFrom(text, i) /\ ScanFrom(text, i) < Len(text)
                  \/ Depth(text, i, Len(text)) > 0 /\ ScanFrom(text, i) = Len(text) /\ i < Len(text)
    /\ \E r \in BracketRuns :
          \E n \in 1..Len(scanned[r].file_issues) :
              scanned[r].file_issues[n].rule_id = TooLongRule(scanned[r].engine)

CohesionRule(engine) == IF engine = "python" THEN "SS218" ELSE "SS220"

\* The lines of a class file that open a method or a constructor, and the
\* name each of them declares.
MethodHeads(text) == {i \in 1..Len(text) : Search(text[i], {"(self):", "()"}) > 0}

DeclaredName(text, i) == text[i][Search(text[i], {"(self):", "()"}) - 1]

\* The instance fields a method refers to: those of the statements between
\* its head and the next head.
StatedFields(text, i) ==
    LET later == {h \in MethodHeads(text) : h > i}
        last == IF later = {} THEN Len(text)
                ELSE (CHOOSE h \in later : \A g \in later : h <= g) - 1
    IN  {f \in DOMAIN PyStatementOf :
            \E j \in (i + 1)..last : Search(text[j], {PyStatementOf[f], JavaStatementOf[f]}) > 0}

\* The sum over a set of pairs of methods of |A \cap B| / |A \cup B|, in
\* sixtieths (a union has one to six fields).
RECURSIVE JaccardSixtieths(_, _)
JaccardSixtieths(text, pairs) ==
    IF pairs = {} THEN 0
    ELSE LET p == CHOOSE q \in pairs : TRUE
         IN  (60 * Cardinality(StatedFields(text, p[1]) \cap StatedFields(text, p[2])))
                 \div Cardinality(StatedFields(text, p[1]) \cup StatedFields(text, p[2]))
             + JaccardSixtieths(text, pairs \ {p})

UsefulPairs(text, methods) ==
    {p \in methods \X methods :
        p[1] < p[2] /\ StatedFields(text, p[1]) # {} /\ StatedFields(text, p[2]) # {}}

\* Three or more of the methods refer to a field and the mean over the
\* pairs of such methods is strictly below 0.15.
MeanBelowThreshold(text, methods) ==
    /\ Cardinality({i \in methods : StatedFields(text, i) # {}}) >= 3
    /\ JaccardSixtieths(text, UsefulPairs(text, methods)) * 100
           < 15 * 60 * Cardinality(UsefulPairs(text, methods))

DeclarationLines(text) == {i \in 1..Len(text) : Search(text[i], {"class"}) > 0}

\* The run has one low-cohesion Issue, at column 1 of the class
\* declaration line, when flagged, and none otherwise.
CohesionIssueIff(rec, flagged) ==
    LET found == {n \in 1..Len(rec.file_issues) :
                     rec.file_issues[n].rule_id = CohesionRule(rec.engine)}
    IN  IF flagged
        THEN /\ Cardinality(found) = 1
             /\ \A n \in found : /\ rec.file_issues[n].line \in DeclarationLines(rec.entry.text)
                                 /\ rec.file_issues[n].column = 1
        ELSE found = {}

ClassRuns == RunsOf("python") \cup RunsOf("java")

\* The methods the engine hands to the scorer: in Python the functions of
\* the class whose names do not start with two underscores, in Java every
\* block that opens with a method or constructor head.
ScoredMethods(engine, text) ==
    IF engine = "python"
    THEN {i \in MethodHeads(text) : DeclaredName(text, i) # "__init__"}
    ELSE MethodHeads(text)

\* C25: the cohesion scorer yields no Issue when fewer than 3 of the scored
\* methods of a class refer to an instance field; otherwise it emits one
\* low-cohesion Issue at the class declaration line if and only if the mean
\* over the pairs of methods with a non-empty field set of
\* |A \cap B| / |A \cup B| is strictly below 0.15.
C25_Cohesion ==
    \A r \in ClassRuns :
        CohesionIssueIff(scanned[r],
            MeanBelowThreshold(scanned[r].entry.text,
                               ScoredMethods(scanned[r].engine, scanned[r].entry.text)))

\* Away from the threshold the scorer agrees with the mean: C25 holds of the
\* runs on classes whose mean is not exactly 0.15.
C25_AwayFromThreshold ==
    \A r \in ClassRuns :
        LET text == scanned[r].entry.text
            methods == ScoredMethods(scanned[r].engine, text)
        IN  JaccardSixtieths(text, UsefulPairs(text, methods)) * 100
                    # 15 * 60 * Cardinality(UsefulPairs(text, methods))
                => CohesionIssueIff(scanned[r], MeanBelowThreshold(text, methods))

\* The rules of the detectors of each bracket-language engine.
LanguageRules(engine) ==
    CASE engine = "go" -> {"SS401", "SS402", "SS403", "SS404", "SS405", "SS406"}
      [] engine = "java" -> {"SS201", "SS202", "SS203", "SS204", "SS205", "SS206", "SS207",
                             "SS208", "SS209", "SS219", "SS220", "SS221"}
      [] engine = "javascript" -> {"SS301", "SS302", "SS303", "SS304", "SS305", "SS306"}
      [] engine = "kotlin" -> {"SS501", "SS502", "SS503", "SS504", "SS505", "SS506", "SS507"}

\* What GenericRuleEngine.run returns for the file of a run.
GenericOf(rec) == GenericRuleEngine_run([path |-> AbsPath(rec.entry), text |-> rec.entry.text])

\* C26: the Issue list a bracket-language engine (Go, Java, JavaScript,
\* Kotlin) returns for a file begins with the list GenericRuleEngine.run
\* returns for the same file, in the same order, and goes on with Issues of
\* the rules of the language only.
C26_GenericPrefix ==
    \A r \in BracketRuns :
        LET rec == scanned[r]
            generic == GenericOf(rec)
        IN  /\ Len(generic) <= Len(rec.file_issues)
            /\ SubSeq(rec.file_issues, 1, Len(generic)) = generic
            /\ \A n \in (Len(generic) + 1)..Len(rec.file_issues) :
                  rec.file_issues[n].rule_id \in LanguageRules(rec.engine)

\* A run of a bracket-language engine that returned an Issue of the generic
\* engine followed by an Issue of the language.
C26_Witness ==
    \E r \in BracketRuns :
        /\ GenericOf(scanned[r]) # << >>
        /\ Len(scanned[r].file_issues) > Len(GenericOf(scanned[r]))

\* The statements that call exec or execSync on the child_process module
\* itself, through a name bound to one of the two functions, and through a
\* name bound to the module.
InlineCalls ==
    {"require('child_process').exec(cmd);", "const out = require('child_process').execSync(cmd);"}

NameCalls == "exec(cmd);" :> "exec" @@ "run(cmd);" :> "run"

ModuleCalls == "cp.exec(cmd);" :> "cp" @@ "cp.execSync(cmd);" :> "cp"

\* The statements that bind a name to exec or execSync, and those that bind
\* a name to the module.
FunctionBindings ==
    "const { exec } = require('child_process');" :> "exec" @@
    "const { exec: run } = require('child_process');" :> "run" @@
    "import { execSync as run } from 'child_process';" :> "run"

ModuleBindings ==
    "const cp = require('child_process');" :> "cp" @@
    "import * as cp from 'child_process';" :> "cp" @@
    "import cp from 'child_process';" :> "cp"

\* The statements of a line, without its comment.
Statements(line) ==
    LET comment == Search(line, {"//"})
        code == IF comment = 0 THEN line ELSE SubSeq(line, 1, comment - 1)
    IN  {code[k] : k \in 1..Len(code)}

\* Line i of a text invokes exec or execSync: inline, or through a binding
\* of an earlier line.
Invokes(text, i) ==
    \E statement \in Statements(text[i]) :
        \/ statement \in InlineCalls
        \/ /\ statement \in DOMAIN NameCalls
           /\ \E j \in 1..(i - 1) : \E b \in Statements(text[j]) \cap DOMAIN FunctionBindings :
                 FunctionBindings[b] = NameCalls[statement]
        \/ /\ statement \in DOMAIN ModuleCalls
           /\ \E j \in 1..(i - 1) : \E b \in Statements(text[j]) \cap DOMAIN ModuleBindings :
                 ModuleBindings[b] = ModuleCalls[statement]

OneIssueAt(rec, rule_id, i) ==
    Cardinality({n \in 1..Len(rec.file_issues) :
        rec.file_issues[n].rule_id = rule_id /\ rec.file_issues[n].line = i}) = 1

\* C27: the JavaScript engine emits one SS306 Issue, at that line, for every
\* non-comment line that invokes child_process exec or execSync: through an
\* inline require, through a name bound to exec or execSync by a
\* destructured require or import on an earlier line, or through a name
\* bound to the module on an earlier line.
C27_CommandExecution ==
    \A r \in RunsOf("javascript") :
        \A i \in 1..Len(scanned[r].entry.text) :
            Invokes(scanned[r].entry.text, i) => OneIssueAt(scanned[r], "SS306", i)

\* The lines the engine passes over: those that bind a name of the module
\* as well (an assignment of the result of an inline call is read as one),
\* and those with "//" in a string literal before the call.  C27 holds of
\* every other line.
PassedOver(line) ==
    \/ Statements(line) \cap (DOMAIN FunctionBindings \cup DOMAIN ModuleBindings) # {}
    \/ Statements(line) \cap {"const out = require('child_process').execSync(cmd);",
                              "const u = 'a//b';"} # {}

C27_OtherLines ==
    \A r \in RunsOf("javascript") :
        \A i \in 1..Len(scanned[r].entry.text) :
            Invokes(scanned[r].entry.text, i) /\ ~PassedOver(scanned[r].entry.text[i])
                => OneIssueAt(scanned[r], "SS306", i)

\* What the loop collects for a file it has dispatched: the filtered issues
\* of the file, or the issue of the read error.
Collected(rec) ==
    IF rec.outcome = "OSError" THEN <<ScanErrorIssue(NormalizedPath(rec.entry))>>
    ELSE rec.filtered

\* The lists that hold the issues of some lists, each list's issues in
\* their order: the lists one after another in any order, and every
\* interleaving of them.
RECURSIVE Interleavings(_)
Interleavings(parts) ==
    LET open == {i \in 1..Len(parts) : parts[i] # << >>}
    IN  IF open = {} THEN {<< >>}
        ELSE UNION {{<<Head(parts[i])>> \o rest :
                        rest \in Interleavings([parts EXCEPT ![i] = Tail(parts[i])])} :
                    i \in open}

\* C28: the returned issue list is the one the dedup and sort stage gives
\* for the collected issues of the files taken in any order, and in any
\* interleaving: the order in which the files are processed and their
\* results collected does not show in the result.
C28_OrderIndependent ==
    pc = "done" =>
        \A r \in result :
            \A collected \in Interleavings([i \in 1..Len(scanned) |-> Collected(scanned[i])]) :
                _dedupe_issues(collected) = r.issues

\* A finished scan of two files with issues each, the first file's issues
\* sorted after the second's in the result.
C28_Witness ==
    /\ pc = "done"
    /\ Len(scanned) = 2
    /\ Collected(scanned[1]) # << >>
    /\ Collected(scanned[2]) # << >>
    /\ \E r \in result :
          /\ Len(r.issues) >= 2
          /\ r.issues # issues
          /\ r.issues[1] \in Range(Collected(scanned[2]))

\* A file the scan is to reach and count: an allowed target that is not
\* skipped as generated, in a directory that is not pruned for an excluded
\* name (the single file given as root is in no directory of the scan).
Reached(e) ==
    /\ root.is_file \/ ~UnderExcludedDir(e)
    /\ ~(args.skip_generated /\ _is_generated_path(AbsPath(e)))
    /\ _has_allowed_target(e, AbsPath(e), include_ext_set(args.include_extensions),
                           args.include_filenames, args.max_file_size_kb)

\* In a returned result files_scanned is the number of the files to count,
\* each of them was dispatched once, to one engine, no other file was
\* dispatched, and every Issue is an Issue of a file to count.
CountedOnce(counts(_)) ==
    pc = "done" =>
        \A r \in result :
            /\ r.files_scanned = Cardinality({e \in tree : counts(e)})
            /\ \A e \in tree :
                  Cardinality({i \in 1..Len(scanned) : scanned[i].entry = e})
                      = IF counts(e) THEN 1 ELSE 0
            /\ \A n \in 1..Len(r.issues) :
                  \E e \in tree : counts(e) /\ r.issues[n].file_path = NormalizedPath(e)

\* C29: files_scanned in the returned ScanResult is the number of eligible
\* files reached by the scan: every eligible file in a non-pruned directory
\* (or the single file given as root) is counted once and dispatched once
\* to one engine, and no ineligible, excluded or generated-skipped file is
\* counted or contributes an Issue.
C29_FilesScanned == CountedOnce(Reached)

\* With the files that scan_path's own exclude test lets through in the
\* place of the files outside pruned directories, the count is exact.
C29_PathChecked == CountedOnce(Eligible)

\* run_scan has ended, by a return or by an exception.
Ended(c) == c.at \in {"returned", "raised"}

\* What the gate of run_scan is evaluated on: the new issues when a
\* baseline report is set and only_new_issues is true, the result otherwise.
GatedResult(c, r) ==
    IF c.merged.quality_gate.baseline_report # {} /\ c.merged.quality_gate.only_new_issues
    THEN {b.returned.new_result : b \in {b \in baseline : b.given = r}}
    ELSE {r}

\* C30: when validate_quality_gate_config reports an error, run_scan
\* returns 2 with no scan run and no report written; for a configuration
\* without validation errors it has run the scan, written the report of
\* the full result, evaluated the gate (on the new issues only when a
\* baseline report is set and only_new_issues is true), and returned 0 when
\* the gate passed and 2 when it failed.
C30_RunScan ==
    \A c \in cli : Ended(c) =>
        IF validate_quality_gate_config(c.merged) # << >>
        THEN c.returned = {2} /\ pc = "idle" /\ result = {} /\ c.written = << >>
        ELSE /\ result # {}
             /\ \A r \in result :
                   /\ c.written = <<r>>
                   /\ \E g \in gate :
                         /\ g.gate_result \in GatedResult(c, r)
                         /\ c.returned = {IF g.returned.passed THEN 0 ELSE 2}

\* The configurations with a validation error: run_scan returns 2 and
\* prints the errors, and neither reads the coverage, nor scans, nor writes.
C30_ValidationError ==
    \A c \in cli : validate_quality_gate_config(c.merged) # << >> /\ c.at # "validate" =>
        /\ c.at = "returned" /\ c.returned = {2} /\ c.raised = {}
        /\ Len(c.stderr) = Len(validate_quality_gate_config(c.merged))
        /\ c.coverage = {} /\ c.written = << >>
        /\ pc = "idle" /\ result = {} /\ baseline = {} /\ gate = {}

\* The configurations without one: run_scan ends by an exception, before
\* scan_path is called.
C30_ValidConfigRaises ==
    \A c \in cli : validate_quality_gate_config(c.merged) = << >> =>
        /\ c.returned = {} /\ c.written = << >> /\ c.stderr = << >>
        /\ pc = "idle" /\ result = {} /\ baseline = {} /\ gate = {}
        /\ Ended(c) => c.raised \in {{"AttributeError"}, {"FileNotFoundError"}}
        /\ c.raised = {"FileNotFoundError"} => c.merged.scan.coverage_xml # {}

====
